---- MODULE Spec2Model ----
(***************************************************************************)
(* Model of the probe scheduling and decision-caching engine of            *)
(* src/script/claude.js: the operator (lock check, cache read loop, task   *)
(* closures, batch update) and its bounded-concurrency scheduler           *)
(* executeAsyncTasks.                                                      *)
(*                                                                         *)
(* Time.  `now` is Date.now() - startTime of the current invocation.  A    *)
(* step of the model contains at most one reading of the clock, and the    *)
(* clock may advance (Tick) between any two steps.  The `ts` field of the  *)
(* cache records is written and never read by the code; it is left out.    *)
(***************************************************************************)
EXTENDS Integers, Sequences, FiniteSets, TLC

(* ------------------------------ bounds --------------------------------- *)
MaxNodes == 2          \* longest proxies list handed to one invocation
MaxInvocations == 2    \* invocations of the operator in one behaviour
MaxTasks == 3          \* longest proxies list in the scheduler specification
MaxSchedRuns == 1      \* invocations in the scheduler specification
TickStep == 28000      \* milliseconds the clock advances in one Tick
MaxSteadyRuns == 3     \* invocations under arguments that stay the same
MaxMultiRuns == 2      \* invocations of the GPT & Gemini operator (gemini.js, v13)
MaxFields == 3         \* most fields of a proxy in the fingerprint specification
MaxBatchLen == 3       \* longest proxies list in the batch-key specification
MaxVerdictRuns == 2    \* invocations with the request outcomes logged
MaxNameLen == 3        \* most parts of a node name in the label specification
MaxApply == 3          \* times a label is applied to one node
MaxLockRuns == 2       \* invocations in the batch-lock specification

(* ------------------------- program constants --------------------------- *)
GLOBAL_TIMEOUT == 28000
HashSeed == 5381
TwoPow16 == 65536

(* ------------------------------ strings -------------------------------- *)
\* UTF-16 code units of the strings that occur in the modelled proxies.
CharCodes ==
  [ server |-> <<115, 101, 114, 118, 101, 114>>,
    port   |-> <<112, 111, 114, 116>>,
    s1     |-> <<115, 49>>,
    s2     |-> <<115, 50>>,
    a2     |-> <<97, 50>>,
    cp     |-> <<99, 112>> ]

Quote(s) == <<34>> \o CharCodes[s] \o <<34>>

(* ------------------------------ proxies -------------------------------- *)
\* A proxy is a record; the fields the engine adds (_isOk, _cacheKey) and the
\* display fields are the volatile ones.
\* A name is the sequence of its parts (a part is a string that the deny
\* pattern or the prefix test sees as a whole).
NodePool ==
  { [name |-> <<"a">>, server |-> "s1"],
    [name |-> <<"HK">>, server |-> "s1"],
    [name |-> <<"a">>, server |-> "s2"] }

\* the proxies lists an invocation may be handed: up to MaxNodes different
\* nodes of the pool, in any order
Batches ==
  UNION { { ps \in [1..k -> NodePool] : \A i, j \in 1..k : ps[i] = ps[j] => i = j } :
          k \in 0..MaxNodes }

\* the proxies lists of the scheduler specification: k nodes, alternating
\* between the two servers
SchedNode(i) == [name |-> <<"a">>, server |-> IF i % 2 = 1 THEN "s1" ELSE "s2"]
SchedBatches == { [i \in 1..k |-> SchedNode(i)] : k \in 0..MaxTasks }

\* /^(name|collectionName|subName|id|_.*)$/i on the keys that occur
IsVolatileKey(k) == k \in {"name", "collectionName", "subName", "id", "_isOk", "_cacheKey"}

\* the keys of a proxy in localeCompare order (all modelled keys are lower
\* case ASCII, the only non-volatile one being "server")
SortedKeys(p) == IF "server" \in DOMAIN p THEN <<"server">> ELSE << >>

RECURSIVE JoinEntries(_, _)
JoinEntries(p, keys) ==
  IF keys = << >> THEN << >>
  ELSE LET k == Head(keys)
           e == Quote(k) \o <<58>> \o Quote(p[k])
       IN IF Len(keys) = 1 THEN e ELSE e \o <<44>> \o JoinEntries(p, Tail(keys))

\* JSON.stringify(Object.fromEntries(sorted non-volatile entries)), as the
\* sequence of its code units
getFingerprint(p) ==
  LET keys == SelectSeq(SortedKeys(p), LAMBDA k : ~IsVolatileKey(k))
  IN <<123>> \o JoinEntries(p, keys) \o <<125>>

getProxyCacheKey(p) == <<"claude_check_standalone_v4", getFingerprint(p)>>

(* ------------------------------- hashing ------------------------------- *)
RECURSIVE BitXor(_, _)
BitXor(a, b) ==
  IF a = 0 THEN b
  ELSE IF b = 0 THEN a
  ELSE (((a % 2) + (b % 2)) % 2) + (2 * BitXor(a \div 2, b \div 2))

\* A 32-bit unsigned value is kept as the pair <<high half, low half>> of
\* 16-bit halves (the checker's integers are 32-bit signed).
\* h = ((h << 5) + h) ^ c; h = h >>> 0.  The shift and the sum are taken in
\* 32-bit two's complement, so the unsigned result is 33 * h mod 2^32, xor c
\* (c is a UTF-16 code unit, so only the low half is touched by the xor).
HashStep(h, c) ==
  LET lo33 == h[2] * 33
      hi33 == (h[1] * 33) + (lo33 \div TwoPow16)
  IN <<hi33 % TwoPow16, BitXor(lo33 % TwoPow16, c)>>

\* the inner loop over the code units of one string (the test on h2 always
\* holds; it has the value computed before the next round)
RECURSIVE HashChars(_, _)
HashChars(h, s) ==
  IF s = << >> THEN h
  ELSE LET h2 == HashStep(h, Head(s))
       IN IF h2[1] >= 0 THEN HashChars(h2, Tail(s)) ELSE h2

RECURSIVE HashList(_, _)
HashList(h, list) ==
  IF list = << >> THEN h
  ELSE LET h2 == HashChars(h, Head(list))
       IN IF h2[1] >= 0 THEN HashList(h2, Tail(list)) ELSE h2

\* only the first string of the list hashed
hashStrings_FirstOnly(list) ==
  IF list = << >> THEN <<0, HashSeed>> ELSE HashChars(<<0, HashSeed>>, Head(list))

hashStrings(list) == HashList(<<0, HashSeed>>, list)

\* s < t in the order of Array.prototype.sort() without comparator
RECURSIVE StrLess(_, _)
StrLess(s, t) ==
  IF t = << >> THEN FALSE
  ELSE IF s = << >> THEN TRUE
  ELSE IF Head(s) # Head(t) THEN Head(s) < Head(t)
  ELSE StrLess(Tail(s), Tail(t))

RECURSIVE InsertSorted(_, _)
InsertSorted(x, list) ==
  IF list = << >> THEN <<x>>
  ELSE IF StrLess(x, Head(list)) THEN <<x>> \o list
  ELSE <<Head(list)>> \o InsertSorted(x, Tail(list))

RECURSIVE SortStrings(_)
SortStrings(list) ==
  IF list = << >> THEN << >> ELSE InsertSorted(Head(list), SortStrings(Tail(list)))

\* the fingerprints hashed in the order of the list
getBatchKey_Unsorted(ps) ==
  LET fps == [i \in 1..Len(ps) |-> getFingerprint(ps[i])]
  IN <<"claude_check_batch_v2", hashStrings(fps)>>

getBatchKey(ps) ==
  LET fps == SortStrings([i \in 1..Len(ps) |-> getFingerprint(ps[i])])
  IN <<"claude_check_batch_v2", hashStrings(fps)>>


(* ------------------------------ the cache ------------------------------ *)
\* scriptResourceCache: a key -> record store.  cache.get of a key never
\* set yields undefined (NoRec).
NoRec == [absent |-> TRUE]
cacheGet(c, k) == IF k \in DOMAIN c THEN c[k] ELSE NoRec
cacheSet(c, k, v) == [x \in (DOMAIN c) \cup {k} |-> IF x = k THEN v ELSE c[x]]

DecisionRec(ok, tries, denied) == [ok |-> ok, tries |-> tries, denied |-> denied]
MetaRec(runs, locked) == [runs |-> runs, locked |-> locked]

(* --------------------------- configuration ----------------------------- *)
\* $arguments after parsing (lines 43-69).  deny = TRUE stands for the
\* pattern 'HK' (compileDenyRegex gives /HK/i), FALSE for no pattern.
ConcurrencyVals == {1, 2}
MaxTriesVals == {0, 1, 2}
MaxRunsVals == {0, 1}
ModeVals == {"api_only", "web_only", "api_then_web"}
StrictVals == {TRUE}
AllowVals == {FALSE}

\* the configurations an invocation is drawn from: the cache, force, retry,
\* lock and deny options vary, two tasks may run at once, the mode is the
\* default one
Configs ==
  { c \in [ concurrency : {2}, useCache : BOOLEAN, force : BOOLEAN,
            maxTries : MaxTriesVals, maxRuns : MaxRunsVals, deny : BOOLEAN,
            mode : {"api_then_web"}, strict : StrictVals, allow429 : AllowVals,
            allow529 : AllowVals ] :
      c.force => c.useCache }        \* force = (force argument) && useCache

\* the configurations of the scheduler specification: the concurrency and
\* the mode vary, everything else is at its documented default
SchedConfigs ==
  [ concurrency : ConcurrencyVals, useCache : {TRUE}, force : {FALSE},
    maxTries : {2}, maxRuns : {2}, deny : {FALSE},
    mode : ModeVals, strict : StrictVals, allow429 : AllowVals,
    allow529 : AllowVals ]

denyTest(c, name) == c.deny /\ \E i \in 1..Len(name) : name[i] = "HK"


(* ------------------------- probe classification ------------------------ *)
\* What tryParseJson(body) yields: null, or a value described by the
\* properties looksLikeAnthropicError inspects.
JsonNull == [isObj |-> FALSE, type |-> "", errIsObj |-> FALSE, etype |-> "",
             etypeIsStr |-> FALSE, msgIsStr |-> FALSE]
JsonError(etype, msgIsStr) ==
  [isObj |-> TRUE, type |-> "error", errIsObj |-> TRUE, etype |-> etype,
   etypeIsStr |-> TRUE, msgIsStr |-> msgIsStr]
Bodies == { JsonNull, JsonError("authentication_error", TRUE) }

StatusCodes == {200, 401, 403, 429}
\* what $.http.get resolves with; HttpThrow is a transport failure
HttpThrow == [status |-> 0 - 1, body |-> JsonNull]
Responses == [status : StatusCodes, body : Bodies] \cup {HttpThrow}

looksLikeAnthropicError(j) ==
  /\ j.isObj
  /\ j.type = "error"
  /\ j.errIsObj
  /\ j.etypeIsStr
  /\ j.msgIsStr

\* strict mode content with any well-formed error, whatever its error.type
checkAnthropicAPI_AnyErrorType(c, res) ==
  IF res = HttpThrow THEN FALSE
  ELSE IF res.status = 429 THEN (IF c.allow429 THEN looksLikeAnthropicError(res.body) ELSE FALSE)
  ELSE IF res.status = 529 THEN (IF c.allow529 THEN looksLikeAnthropicError(res.body) ELSE FALSE)
  ELSE IF c.strict
       THEN /\ res.status = 401
            /\ looksLikeAnthropicError(res.body)
  ELSE IF res.status \in {401, 400, 403} THEN looksLikeAnthropicError(res.body)
  ELSE FALSE

\* 429 and 529 let through without asking allow_429 / allow_529
checkAnthropicAPI_Overloaded(c, res) ==
  IF res = HttpThrow THEN FALSE
  ELSE IF res.status \in {429, 529} THEN looksLikeAnthropicError(res.body)
  ELSE IF c.strict
       THEN /\ res.status = 401
            /\ looksLikeAnthropicError(res.body)
            /\ res.body.etype = "authentication_error"
  ELSE IF res.status \in {401, 400, 403} THEN looksLikeAnthropicError(res.body)
  ELSE FALSE

\* the verdict of checkAnthropicAPI for one outcome of the request
checkAnthropicAPI(c, res) ==
  IF res = HttpThrow THEN FALSE
  ELSE IF res.status = 429 THEN (IF c.allow429 THEN looksLikeAnthropicError(res.body) ELSE FALSE)
  ELSE IF res.status = 529 THEN (IF c.allow529 THEN looksLikeAnthropicError(res.body) ELSE FALSE)
  ELSE IF c.strict
       THEN /\ res.status = 401
            /\ looksLikeAnthropicError(res.body)
            /\ res.body.etype = "authentication_error"
  ELSE IF res.status \in {401, 400, 403} THEN looksLikeAnthropicError(res.body)
  ELSE FALSE

\* parseStatusList('200,302'), the default of web_ok_statuses
webOkStatuses == {200, 302}

checkClaudeWeb(res) ==
  IF res = HttpThrow THEN FALSE ELSE res.status \in webOkStatuses


(* ------------------------------- state --------------------------------- *)
VARIABLES
  cache,          \* scriptResourceCache: key -> record
  pc,             \* where the operator is: "idle", "call", "sched", "resolved", "returned"
  cfg,            \* the parsed $arguments of the current invocation
  proxies,        \* the proxies list; isOk is the _isOk field ("unset" when absent)
  tasks,          \* the tasks array built by the read loop: [proxy, cacheKey, tries]
  tstate,         \* per task: "queued", "started", "api", "web", "settled", "threw", "finished"
  index,          \* executeAsyncTasks: index
  running,        \* executeAsyncTasks: running
  attemptedCount, \* operator: attemptedCount
  batchKey,       \* operator: batchKey
  batchMeta,      \* operator: batchMeta, as read at line 80
  now,            \* Date.now() - startTime
  result,         \* the list the operator returned (indices into proxies)
  invocations,    \* number of invocations so far
  readLog,        \* history: per proxy, what the read loop did with it
  reqs,           \* history: per proxy, HTTP requests issued in this invocation
  tlog,           \* history: per task, whether it threw, and whether its verdict
                  \* was written after the deadline
  audit,          \* history over all invocations, kept when the caller passes the
                  \* same maxTries and maxRuns every time: those two values, the
                  \* probes per decision key, the invocations that probed a key,
                  \* the probing rounds per batch key
  trace           \* history: per task, how its API and its Web request ended
                  \* ("none", "threw", "accept", "reject"), kept when audit.trace

vars == <<cache, pc, cfg, proxies, tasks, tstate, index, running, attemptedCount,
          batchKey, batchMeta, now, result, invocations, readLog, reqs, tlog, audit,
          trace>>

DefaultCfg ==
  [concurrency |-> 1, useCache |-> TRUE, force |-> FALSE, maxTries |-> 2,
   maxRuns |-> 2, deny |-> FALSE, mode |-> "api_then_web", strict |-> TRUE,
   allow429 |-> FALSE, allow529 |-> FALSE]

AuditOff == [on |-> FALSE, trace |-> FALSE]
AuditOn(n, m) ==
  [on |-> TRUE, trace |-> FALSE, maxTries |-> n, maxRuns |-> m, probes |-> << >>,
   keyRounds |-> << >>, rounds |-> << >>]
TraceOn == [on |-> FALSE, trace |-> TRUE]
\* how a request ended, given its response and the verdict drawn from it
outcomeOf(res, ok) ==
  IF res = HttpThrow THEN "threw" ELSE IF ok THEN "accept" ELSE "reject"
countOf(f, k) == IF k \in DOMAIN f THEN f[k] ELSE 0
bump(f, k) == [x \in (DOMAIN f) \cup {k} |-> IF x = k THEN countOf(f, k) + 1 ELSE f[x]]

\* the state before the first invocation: an empty cache
InitLocals ==
  /\ cache = << >>
  /\ pc = "idle"
  /\ cfg = DefaultCfg
  /\ proxies = << >>
  /\ tasks = << >>
  /\ tstate = << >>
  /\ index = 0
  /\ running = 0
  /\ attemptedCount = 0
  /\ batchKey = getBatchKey(<< >>)
  /\ batchMeta = MetaRec(0, FALSE)
  /\ now = 0
  /\ result = << >>
  /\ invocations = 0
  /\ readLog = << >>
  /\ reqs = << >>
  /\ tlog = << >>
  /\ trace = << >>

Init == InitLocals /\ audit = AuditOff

deadlinePassed == now > GLOBAL_TIMEOUT       \* Date.now() > deadline

(* ------------------------ operator: lines 78-132 ----------------------- *)
\* the lock one round late: the locked flag not read, > in place of >=
shouldLock_LateLock(c, meta) ==
  c.useCache /\ ~c.force /\ c.maxRuns > 0 /\ meta.runs > c.maxRuns

\* the lock test reading the run count only
shouldLock_IgnoresLocked(c, meta) ==
  c.useCache /\ ~c.force /\ c.maxRuns > 0 /\ meta.runs >= c.maxRuns

\* the lock test not reading force
shouldLock_UnderForce(c, meta) ==
  c.useCache /\ c.maxRuns > 0 /\ (meta.locked = TRUE \/ meta.runs >= c.maxRuns)

\* line 82
shouldLock(c, meta) ==
  c.useCache /\ ~c.force /\ c.maxRuns > 0 /\ (meta.locked = TRUE \/ meta.runs >= c.maxRuns)

\* the tries of a record as lines 109 and 124 read it
triesOf(rec) == IF rec # NoRec THEN rec.tries ELSE 0

\* the locked loop accepting every node that has a record
LockedStep_AnyRecord(c, ch, p) ==
  LET rec == cacheGet(ch, getProxyCacheKey(p))
  IN [cache |-> ch, isOk |-> IF rec # NoRec THEN "true" ELSE "false", branch |-> "locked",
      rec |-> rec, tries |-> 0]

\* One iteration of the locked loop (lines 86-95).
LockedStep(c, ch, p) ==
  LET rec == cacheGet(ch, getProxyCacheKey(p))
      ok == rec # NoRec /\ rec.ok = TRUE
  IN [cache |-> ch, isOk |-> IF ok THEN "true" ELSE "false", branch |-> "locked",
      rec |-> rec, tries |-> 0]

\* ReadStep variants: the retry cap tested before the cached success; the
\* cap tested with > in place of >=; the cached success skipped under force.
ReadStepWith(c, ch, p, capFirst, capStrict, forceSkipsOk) ==
  LET key == getProxyCacheKey(p) IN
  IF ~c.force /\ denyTest(c, p.name)
  THEN LET cached == IF c.useCache THEN cacheGet(ch, key) ELSE NoRec
           nextTries == (IF cached # NoRec THEN cached.tries ELSE 0) + 1
       IN [cache |-> IF c.useCache THEN cacheSet(ch, key, DecisionRec(FALSE, nextTries, TRUE))
                     ELSE ch,
           isOk |-> "false", branch |-> "denied", rec |-> cached, tries |-> 0]
  ELSE LET cachedRes == IF c.useCache THEN cacheGet(ch, key) ELSE NoRec
           tries == IF cachedRes # NoRec THEN cachedRes.tries ELSE 0
           capped == /\ ~c.force /\ c.maxTries > 0
                     /\ IF capStrict THEN tries > c.maxTries ELSE tries >= c.maxTries
           cachedOk == /\ cachedRes # NoRec /\ cachedRes.ok = TRUE
                       /\ ~(forceSkipsOk /\ c.force)
       IN IF cachedOk /\ ~(capFirst /\ capped)
          THEN [cache |-> ch, isOk |-> "true", branch |-> "cached", rec |-> cachedRes,
                tries |-> tries]
          ELSE IF capped
          THEN [cache |-> ch, isOk |-> "false", branch |-> "giveup", rec |-> cachedRes,
                tries |-> tries]
          ELSE [cache |-> ch, isOk |-> "unset", branch |-> "task", rec |-> cachedRes,
                tries |-> tries]

ReadStep_CapFirst(c, ch, p) == ReadStepWith(c, ch, p, TRUE, FALSE, FALSE)
ReadStep_CapStrict(c, ch, p) == ReadStepWith(c, ch, p, FALSE, TRUE, FALSE)
ReadStep_ForceReprobes(c, ch, p) == ReadStepWith(c, ch, p, FALSE, FALSE, TRUE)
\* the read loop never giving up on a node
ReadStep_NoCap(c, ch, p) ==
  ReadStepWith([c EXCEPT !.maxTries = 0], ch, p, FALSE, FALSE, FALSE)

\* the read loop using the cache whatever the cache argument says
ReadStep_IgnoresSwitch(c, ch, p) ==
  ReadStepWith([c EXCEPT !.useCache = TRUE], ch, p, FALSE, FALSE, FALSE)

\* One iteration of the read loop (lines 100-132): the cache after it, the
\* verdict it gives the proxy, the branch taken and the record it read.
ReadStep(c, ch, p) ==
  LET key == getProxyCacheKey(p) IN
  IF ~c.force /\ denyTest(c, p.name)
  THEN LET cached == IF c.useCache THEN cacheGet(ch, key) ELSE NoRec
           nextTries == triesOf(cached) + 1
       IN [cache |-> IF c.useCache THEN cacheSet(ch, key, DecisionRec(FALSE, nextTries, TRUE))
                     ELSE ch,
           isOk |-> "false", branch |-> "denied", rec |-> cached, tries |-> 0]
  ELSE LET cachedRes == IF c.useCache THEN cacheGet(ch, key) ELSE NoRec
           tries == triesOf(cachedRes)
       IN IF cachedRes # NoRec /\ cachedRes.ok = TRUE
          THEN [cache |-> ch, isOk |-> "true", branch |-> "cached", rec |-> cachedRes,
                tries |-> tries]
          ELSE IF ~c.force /\ c.maxTries > 0 /\ tries >= c.maxTries
          THEN [cache |-> ch, isOk |-> "false", branch |-> "giveup", rec |-> cachedRes,
                tries |-> tries]
          ELSE [cache |-> ch, isOk |-> "unset", branch |-> "task", rec |-> cachedRes,
                tries |-> tries]

\* The whole loop over proxies i..Len(ps), from the accumulated state acc.
RECURSIVE ReadLoop(_, _, _, _, _)
ReadLoop(c, ps, i, acc, locked) ==
  IF i > Len(ps) THEN acc
  ELSE LET r == IF locked THEN LockedStep(c, acc.cache, ps[i])
                ELSE ReadStep(c, acc.cache, ps[i])
           key == getProxyCacheKey(ps[i])
       IN ReadLoop(c, ps, i + 1,
            [cache |-> r.cache,
             proxies |-> Append(acc.proxies,
                           [name |-> ps[i].name, server |-> ps[i].server, isOk |-> r.isOk]),
             tasks |-> IF r.branch = "task"
                       THEN Append(acc.tasks, [proxy |-> i, cacheKey |-> key, tries |-> r.tries])
                       ELSE acc.tasks,
             log |-> Append(acc.log,
                       [branch |-> r.branch, rec |-> r.rec,
                        after |-> cacheGet(r.cache, key)])],
            locked)

\* proxies.filter(p => p._isOk === true), as indices into proxies
\* the filter keeping every node not marked false
okIndices_NotFalse(ps) ==
  SelectSeq([i \in 1..Len(ps) |-> i], LAMBDA i : ps[i].isOk # "false")

okIndices(ps) == SelectSeq([i \in 1..Len(ps) |-> i], LAMBDA i : ps[i].isOk = "true")

\* getBatchKey of every proxies list, evaluated once
BatchKeys == [ps \in Batches \cup SchedBatches |-> getBatchKey(ps)]

\* operator up to the call of executeAsyncTasks; when the batch is locked or
\* no task was built it runs to its return statement without suspending.
InvokeWith(batches, configs, maxInv) ==
  /\ pc = "idle"
  /\ invocations < maxInv
  /\ \E ps \in batches, c \in configs :
       LET bk == BatchKeys[ps]
           stored == IF c.useCache THEN cacheGet(cache, bk) ELSE NoRec
           meta == IF stored # NoRec THEN stored ELSE MetaRec(0, FALSE)
           lock == shouldLock(c, meta)
           acc == ReadLoop(c, ps, 1,
                    [cache |-> cache, proxies |-> << >>, tasks |-> << >>, log |-> << >>],
                    lock)
       IN /\ cfg' = c
          /\ batchKey' = bk
          /\ batchMeta' = meta
          /\ cache' = acc.cache
          /\ proxies' = acc.proxies
          /\ tasks' = acc.tasks
          /\ readLog' = acc.log
          /\ tstate' = [t \in 1..Len(acc.tasks) |-> "queued"]
          /\ reqs' = [i \in 1..Len(ps) |-> 0]
          /\ tlog' = [t \in 1..Len(acc.tasks) |-> [threw |-> FALSE, late |-> FALSE]]
          /\ trace' = [t \in 1..Len(acc.tasks) |-> [api |-> "none", web |-> "none"]]
          /\ pc' = IF lock \/ acc.tasks = << >> THEN "returned" ELSE "call"
          /\ result' = IF lock \/ acc.tasks = << >> THEN okIndices(acc.proxies) ELSE << >>
  /\ index' = 0
  /\ running' = 0
  /\ attemptedCount' = 0
  /\ now' = 0
  /\ invocations' = invocations + 1
  /\ UNCHANGED audit

Invoke == InvokeWith(Batches, Configs, MaxInvocations)
InvokeSched == InvokeWith(SchedBatches, SchedConfigs, MaxSchedRuns)


(* ----------------- executeAsyncTasks: lines 297-322 -------------------- *)
\* startTasks with the slot test off by one: running <= concurrency
RECURSIVE startTasks_OffByOne(_, _, _, _)
startTasks_OffByOne(c, idx, run, ts) ==
  IF idx < Len(ts) /\ run <= c.concurrency
  THEN startTasks_OffByOne(c, idx + 1, run + 1, [ts EXCEPT ![idx + 1] = "started"])
  ELSE [index |-> idx, running |-> run, tstate |-> ts]

\* startTasks letting one task run whatever the limit
RECURSIVE startTasks_MinOne(_, _, _, _)
startTasks_MinOne(c, idx, run, ts) ==
  IF idx < Len(ts) /\ (run < c.concurrency \/ run = 0)
  THEN startTasks_MinOne(c, idx + 1, run + 1, [ts EXCEPT ![idx + 1] = "started"])
  ELSE [index |-> idx, running |-> run, tstate |-> ts]

\* the while loop of executeNextTask (lines 305-316): start queued tasks
\* while a slot is free.  idx counts the tasks started so far.
RECURSIVE startTasks(_, _, _, _)
startTasks(c, idx, run, ts) ==
  IF idx < Len(ts) /\ run < c.concurrency
  THEN startTasks(c, idx + 1, run + 1, [ts EXCEPT ![idx + 1] = "started"])
  ELSE [index |-> idx, running |-> run, tstate |-> ts]

\* executeNextTask without the deadline test of line 303
executeNextTask_NoDeadline(c, idx, run, ts, expired) ==
  LET s == startTasks(c, idx, run, ts)
  IN [index |-> s.index, running |-> s.running, tstate |-> s.tstate,
      resolved |-> (s.running = 0 /\ s.index >= Len(ts))]

\* executeNextTask resolving past the deadline whatever is still running
executeNextTask_ResolveEarly(c, idx, run, ts, expired) ==
  IF expired
  THEN [index |-> idx, running |-> run, tstate |-> ts, resolved |-> TRUE]
  ELSE LET s == startTasks(c, idx, run, ts)
       IN [index |-> s.index, running |-> s.running, tstate |-> s.tstate,
           resolved |-> (s.running = 0 /\ s.index >= Len(ts))]

\* executeNextTask returning past the deadline without ever resolving
executeNextTask_SilentDeadline(c, idx, run, ts, expired) ==
  IF expired
  THEN [index |-> idx, running |-> run, tstate |-> ts, resolved |-> FALSE]
  ELSE LET s == startTasks(c, idx, run, ts)
       IN [index |-> s.index, running |-> s.running, tstate |-> s.tstate,
           resolved |-> (s.running = 0 /\ s.index >= Len(ts))]

\* executeNextTask (lines 302-318); resolved tells whether it called resolve()
executeNextTask(c, idx, run, ts, expired) ==
  IF expired
  THEN [index |-> idx, running |-> run, tstate |-> ts, resolved |-> (run = 0)]
  ELSE LET s == startTasks(c, idx, run, ts)
       IN [index |-> s.index, running |-> s.running, tstate |-> s.tstate,
           resolved |-> (s.running = 0 /\ s.index >= Len(ts))]

\* the call of executeAsyncTasks at line 137: the first executeNextTask()
ExecuteAsyncTasks ==
  /\ pc = "call"
  /\ LET r == executeNextTask(cfg, 0, 0, tstate, deadlinePassed)
     IN /\ index' = r.index
        /\ running' = r.running
        /\ tstate' = r.tstate
        /\ pc' = IF r.resolved THEN "resolved" ELSE "sched"
  /\ UNCHANGED <<cache, cfg, proxies, tasks, attemptedCount, batchKey, batchMeta, now,
                 result, invocations, readLog, reqs, tlog, audit, trace>>

\* the callback releasing the slot without calling executeNextTask again
TaskFinally_NoNext(t) ==
  /\ tstate[t] \in {"settled", "threw"}
  /\ running' = running - 1
  /\ tstate' = [tstate EXCEPT ![t] = "finished"]
  /\ index' = index
  /\ pc' = IF running - 1 = 0 /\ index >= Len(tasks) /\ pc = "sched" THEN "resolved" ELSE pc
  /\ UNCHANGED <<cache, cfg, proxies, tasks, attemptedCount, batchKey, batchMeta, now,
                 result, invocations, readLog, reqs, tlog, audit, trace>>

\* the callback registered with .then(): it does not run for a task that threw
TaskFinally_ThenOnly(t) ==
  /\ tstate[t] = "settled"
  /\ LET run == running - 1
         ts == [tstate EXCEPT ![t] = "finished"]
     IN IF run = 0 /\ index >= Len(tasks)
        THEN /\ running' = run
             /\ tstate' = ts
             /\ index' = index
             /\ pc' = IF pc = "sched" THEN "resolved" ELSE pc
        ELSE LET r == executeNextTask(cfg, index, run, ts, deadlinePassed)
             IN /\ running' = r.running
                /\ tstate' = r.tstate
                /\ index' = r.index
                /\ pc' = IF r.resolved /\ pc = "sched" THEN "resolved" ELSE pc
  /\ UNCHANGED <<cache, cfg, proxies, tasks, attemptedCount, batchKey, batchMeta, now,
                 result, invocations, readLog, reqs, tlog, audit, trace>>

\* the .finally callback of a started task (lines 311-315)
\* the finally callback resolving as soon as no task is left to start
TaskFinally_ResolveBusy(t) ==
  /\ tstate[t] \in {"settled", "threw"}
  /\ LET run == running - 1
         ts == [tstate EXCEPT ![t] = "finished"]
     IN IF index >= Len(tasks)
        THEN /\ running' = run
             /\ tstate' = ts
             /\ index' = index
             /\ pc' = IF pc = "sched" THEN "resolved" ELSE pc
        ELSE LET r == executeNextTask(cfg, index, run, ts, deadlinePassed)
             IN /\ running' = r.running
                /\ tstate' = r.tstate
                /\ index' = r.index
                /\ pc' = IF r.resolved /\ pc = "sched" THEN "resolved" ELSE pc
  /\ UNCHANGED <<cache, cfg, proxies, tasks, attemptedCount, batchKey, batchMeta, now,
                 result, invocations, readLog, reqs, tlog, audit, trace>>

TaskFinally(t) ==
  /\ tstate[t] \in {"settled", "threw"}
  /\ LET run == running - 1
         ts == [tstate EXCEPT ![t] = "finished"]
     IN IF run = 0 /\ index >= Len(tasks)
        THEN /\ running' = run
             /\ tstate' = ts
             /\ index' = index
             /\ pc' = IF pc = "sched" THEN "resolved" ELSE pc
        ELSE LET r == executeNextTask(cfg, index, run, ts, deadlinePassed)
             IN /\ running' = r.running
                /\ tstate' = r.tstate
                /\ index' = r.index
                /\ pc' = IF r.resolved /\ pc = "sched" THEN "resolved" ELSE pc
  /\ UNCHANGED <<cache, cfg, proxies, tasks, attemptedCount, batchKey, batchMeta, now,
                 result, invocations, readLog, reqs, tlog, audit, trace>>

(* -------------------- the task closure: lines 138-154 ------------------ *)
\* what ProxyUtils.produce([proxy], target) can do
ProduceOutcomes == {"node", "none", "throw"}

issue(t) == [reqs EXCEPT ![tasks[t].proxy] = @ + 1]

\* history: one more probe of the task's key, and one more invocation probing
\* that key when no node with the same key has sent a request in this one
countProbe(t) ==
  IF ~audit.on THEN audit
  ELSE LET key == tasks[t].cacheKey
           first == \A i \in 1..Len(proxies) :
                      getProxyCacheKey(proxies[i]) = key => reqs[i] = 0
       IN [audit EXCEPT !.probes = bump(@, key),
                        !.keyRounds = IF first THEN bump(@, key) ELSE @]

\* the task counting its attempt before the materializer has answered
TaskBegin_CountsSkipped(t) ==
  /\ tstate[t] = "started"
  /\ IF deadlinePassed
     THEN /\ tstate' = [tstate EXCEPT ![t] = "settled"]
          /\ UNCHANGED <<attemptedCount, reqs, tlog, audit>>
     ELSE \E out \in ProduceOutcomes :
            CASE out = "throw" ->
                   /\ tstate' = [tstate EXCEPT ![t] = "threw"]
                   /\ tlog' = [tlog EXCEPT ![t].threw = TRUE]
                   /\ UNCHANGED <<attemptedCount, reqs, audit>>
              [] out = "none" ->
                   /\ attemptedCount' = attemptedCount + 1
                   /\ tstate' = [tstate EXCEPT ![t] = "settled"]
                   /\ UNCHANGED <<reqs, tlog, audit>>
              [] out = "node" ->
                   /\ attemptedCount' = attemptedCount + 1
                   /\ tstate' = [tstate EXCEPT ![t] =
                                   IF cfg.mode = "web_only" THEN "web" ELSE "api"]
                   /\ reqs' = issue(t)
                   /\ audit' = countProbe(t)
                   /\ UNCHANGED tlog
  /\ UNCHANGED <<cache, pc, cfg, proxies, tasks, index, running, batchKey, batchMeta,
                 now, result, invocations, readLog, trace>>

\* lines 139-145: the body of a started task up to its first request
TaskBegin(t) ==
  /\ tstate[t] = "started"
  /\ IF deadlinePassed
     THEN /\ tstate' = [tstate EXCEPT ![t] = "settled"]
          /\ UNCHANGED <<attemptedCount, reqs, tlog, audit>>
     ELSE \E out \in ProduceOutcomes :
            CASE out = "throw" ->
                   /\ tstate' = [tstate EXCEPT ![t] = "threw"]
                   /\ tlog' = [tlog EXCEPT ![t].threw = TRUE]
                   /\ UNCHANGED <<attemptedCount, reqs, audit>>
              [] out = "none" ->
                   /\ tstate' = [tstate EXCEPT ![t] = "settled"]
                   /\ UNCHANGED <<attemptedCount, reqs, tlog, audit>>
              [] out = "node" ->
                   /\ attemptedCount' = attemptedCount + 1
                   /\ tstate' = [tstate EXCEPT ![t] =
                                   IF cfg.mode = "web_only" THEN "web" ELSE "api"]
                   /\ reqs' = issue(t)
                   /\ audit' = countProbe(t)
                   /\ UNCHANGED tlog
  /\ UNCHANGED <<cache, pc, cfg, proxies, tasks, index, running, batchKey, batchMeta,
                 now, result, invocations, readLog, trace>>

\* the completion writing the tries it read, without the + 1
complete_KeepTries(t, isOk) ==
  /\ cache' = IF cfg.useCache
              THEN cacheSet(cache, tasks[t].cacheKey,
                            DecisionRec(isOk, tasks[t].tries, FALSE))
              ELSE cache
  /\ proxies' = [proxies EXCEPT ![tasks[t].proxy].isOk = IF isOk THEN "true" ELSE "false"]
  /\ tstate' = [tstate EXCEPT ![t] = "settled"]
  /\ tlog' = [tlog EXCEPT ![t].late = deadlinePassed]

\* the task counting its attempt twice
complete_CountsTwice(t, isOk) ==
  /\ cache' = IF cfg.useCache
              THEN cacheSet(cache, tasks[t].cacheKey,
                            DecisionRec(isOk, tasks[t].tries + 2, FALSE))
              ELSE cache
  /\ proxies' = [proxies EXCEPT ![tasks[t].proxy].isOk = IF isOk THEN "true" ELSE "false"]
  /\ tstate' = [tstate EXCEPT ![t] = "settled"]
  /\ tlog' = [tlog EXCEPT ![t].late = deadlinePassed]

\* lines 147-153: what the task does with the verdict of checkClaude
complete(t, isOk) ==
  /\ cache' = IF cfg.useCache
              THEN cacheSet(cache, tasks[t].cacheKey,
                            DecisionRec(isOk, tasks[t].tries + 1, FALSE))
              ELSE cache
  /\ proxies' = [proxies EXCEPT ![tasks[t].proxy].isOk = IF isOk THEN "true" ELSE "false"]
  /\ tstate' = [tstate EXCEPT ![t] = "settled"]
  /\ tlog' = [tlog EXCEPT ![t].late = deadlinePassed]

\* checkClaude sending the Web request after the API request whatever it yielded
ApiResponse_AlwaysWeb(t) ==
  /\ tstate[t] = "api"
  /\ \E res \in Responses :
       LET apiOk == checkAnthropicAPI(cfg, res) IN
       /\ IF cfg.mode = "api_only"
          THEN complete(t, apiOk) /\ UNCHANGED reqs
          ELSE /\ tstate' = [tstate EXCEPT ![t] = "web"]
               /\ reqs' = issue(t)
               /\ UNCHANGED <<cache, proxies, tlog>>
       /\ trace' = IF audit.trace
                   THEN [trace EXCEPT ![t].api = outcomeOf(res, apiOk)]
                   ELSE trace
  /\ UNCHANGED <<pc, cfg, tasks, index, running, attemptedCount, batchKey, batchMeta,
                 now, result, invocations, readLog, audit>>

\* the API request of checkClaude settles (lines 174-180)
ApiResponse(t) ==
  /\ tstate[t] = "api"
  /\ \E res \in Responses :
       LET apiOk == checkAnthropicAPI(cfg, res) IN
       /\ IF cfg.mode = "api_only" \/ apiOk
          THEN complete(t, apiOk) /\ UNCHANGED reqs
          ELSE /\ tstate' = [tstate EXCEPT ![t] = "web"]
               /\ reqs' = issue(t)
               /\ UNCHANGED <<cache, proxies, tlog>>
       /\ trace' = IF audit.trace
                   THEN [trace EXCEPT ![t].api = outcomeOf(res, apiOk)]
                   ELSE trace
  /\ UNCHANGED <<pc, cfg, tasks, index, running, attemptedCount, batchKey, batchMeta,
                 now, result, invocations, readLog, audit>>

\* the Web request of checkClaude settles (lines 171-172, 180)
WebResponse(t) ==
  /\ tstate[t] = "web"
  /\ \E res \in Responses :
       /\ complete(t, checkClaudeWeb(res))
       /\ trace' = IF audit.trace
                   THEN [trace EXCEPT ![t].web = outcomeOf(res, checkClaudeWeb(res))]
                   ELSE trace
  /\ UNCHANGED <<pc, cfg, tasks, index, running, attemptedCount, batchKey, batchMeta,
                 now, result, invocations, readLog, reqs, audit>>

(* ------------------------ operator: lines 159-166 ---------------------- *)
\* the batch update counting every round, probed or not
Finish_EveryRound ==
  /\ pc = "resolved"
  /\ cache' = IF cfg.useCache /\ ~cfg.force /\ cfg.maxRuns > 0
              THEN LET nextRuns == batchMeta.runs + 1
                   IN cacheSet(cache, batchKey, MetaRec(nextRuns, nextRuns >= cfg.maxRuns))
              ELSE cache
  /\ batchMeta' = IF cfg.useCache /\ ~cfg.force /\ cfg.maxRuns > 0
                  THEN MetaRec(batchMeta.runs + 1, batchMeta.runs + 1 >= cfg.maxRuns)
                  ELSE batchMeta
  /\ result' = okIndices(proxies)
  /\ pc' = "returned"
  /\ now' = 0
  /\ audit' = IF audit.on /\ attemptedCount > 0
              THEN [audit EXCEPT !.rounds = bump(@, batchKey)]
              ELSE audit
  /\ UNCHANGED <<cfg, proxies, tasks, tstate, index, running, attemptedCount, batchKey,
                 invocations, readLog, reqs, tlog, trace>>

\* a forced round that probed resetting the batch record
Finish_ForceUnlocks ==
  /\ pc = "resolved"
  /\ cache' = IF cfg.useCache /\ ~cfg.force /\ cfg.maxRuns > 0 /\ attemptedCount > 0
              THEN LET nextRuns == batchMeta.runs + 1
                   IN cacheSet(cache, batchKey, MetaRec(nextRuns, nextRuns >= cfg.maxRuns))
              ELSE IF cfg.force /\ attemptedCount > 0
              THEN cacheSet(cache, batchKey, MetaRec(0, FALSE))
              ELSE cache
  /\ batchMeta' = IF cfg.useCache /\ ~cfg.force /\ cfg.maxRuns > 0 /\ attemptedCount > 0
                  THEN MetaRec(batchMeta.runs + 1, batchMeta.runs + 1 >= cfg.maxRuns)
                  ELSE batchMeta
  /\ result' = okIndices(proxies)
  /\ pc' = "returned"
  /\ now' = 0
  /\ audit' = IF audit.on /\ attemptedCount > 0
              THEN [audit EXCEPT !.rounds = bump(@, batchKey)]
              ELSE audit
  /\ UNCHANGED <<cfg, proxies, tasks, tstate, index, running, attemptedCount, batchKey,
                 invocations, readLog, reqs, tlog, trace>>

\* the batch update locking one round late: > in place of >=
Finish_LocksLate ==
  /\ pc = "resolved"
  /\ cache' = IF cfg.useCache /\ ~cfg.force /\ cfg.maxRuns > 0 /\ attemptedCount > 0
              THEN LET nextRuns == batchMeta.runs + 1
                   IN cacheSet(cache, batchKey, MetaRec(nextRuns, nextRuns > cfg.maxRuns))
              ELSE cache
  /\ batchMeta' = IF cfg.useCache /\ ~cfg.force /\ cfg.maxRuns > 0 /\ attemptedCount > 0
                  THEN MetaRec(batchMeta.runs + 1, batchMeta.runs + 1 > cfg.maxRuns)
                  ELSE batchMeta
  /\ result' = okIndices(proxies)
  /\ pc' = "returned"
  /\ now' = 0
  /\ audit' = IF audit.on /\ attemptedCount > 0
              THEN [audit EXCEPT !.rounds = bump(@, batchKey)]
              ELSE audit
  /\ UNCHANGED <<cfg, proxies, tasks, tstate, index, running, attemptedCount, batchKey,
                 invocations, readLog, reqs, tlog, trace>>

\* lines 159-166: the batch update and the return
Finish ==
  /\ pc = "resolved"
  /\ cache' = IF cfg.useCache /\ ~cfg.force /\ cfg.maxRuns > 0 /\ attemptedCount > 0
              THEN LET nextRuns == batchMeta.runs + 1
                   IN cacheSet(cache, batchKey, MetaRec(nextRuns, nextRuns >= cfg.maxRuns))
              ELSE cache
  /\ batchMeta' = IF cfg.useCache /\ ~cfg.force /\ cfg.maxRuns > 0 /\ attemptedCount > 0
                  THEN MetaRec(batchMeta.runs + 1, batchMeta.runs + 1 >= cfg.maxRuns)
                  ELSE batchMeta
  /\ result' = okIndices(proxies)
  /\ pc' = "returned"
  /\ now' = 0
  /\ audit' = IF audit.on /\ attemptedCount > 0
              THEN [audit EXCEPT !.rounds = bump(@, batchKey)]
              ELSE audit
  /\ UNCHANGED <<cfg, proxies, tasks, tstate, index, running, attemptedCount, batchKey,
                 invocations, readLog, reqs, tlog, trace>>

\* The caller has taken the returned list; the locals of the invocation are
\* gone.  The cache is all that is left for the next invocation.
Return ==
  /\ pc = "returned"
  /\ pc' = "idle"
  /\ cfg' = DefaultCfg
  /\ proxies' = << >>
  /\ tasks' = << >>
  /\ tstate' = << >>
  /\ index' = 0
  /\ running' = 0
  /\ attemptedCount' = 0
  /\ batchKey' = getBatchKey(<< >>)
  /\ batchMeta' = MetaRec(0, FALSE)
  /\ result' = << >>
  /\ readLog' = << >>
  /\ reqs' = << >>
  /\ tlog' = << >>
  /\ trace' = << >>
  /\ UNCHANGED <<cache, now, invocations, audit>>

(* -------------------------------- time --------------------------------- *)
Tick ==
  /\ pc \in {"call", "sched"}
  /\ now <= GLOBAL_TIMEOUT
  /\ now' = now + TickStep
  /\ UNCHANGED <<cache, pc, cfg, proxies, tasks, tstate, index, running, attemptedCount,
                 batchKey, batchMeta, result, invocations, readLog, reqs, tlog, audit, trace>>

TaskIds == 1..Len(tasks)

Next ==
  \/ Invoke
  \/ ExecuteAsyncTasks
  \/ \E t \in TaskIds : TaskBegin(t)
  \/ \E t \in TaskIds : ApiResponse(t)
  \/ \E t \in TaskIds : WebResponse(t)
  \/ \E t \in TaskIds : TaskFinally(t)
  \/ Finish
  \/ Return
  \/ Tick

Spec == Init /\ [][Next]_vars

\* the scheduler under one invocation with a varied task list
NextSched ==
  \/ InvokeSched
  \/ ExecuteAsyncTasks
  \/ \E t \in TaskIds : TaskBegin(t)
  \/ \E t \in TaskIds : ApiResponse(t)
  \/ \E t \in TaskIds : WebResponse(t)
  \/ \E t \in TaskIds : TaskFinally(t)
  \/ Finish
  \/ Return
  \/ Tick

SpecSched == Init /\ [][NextSched]_vars


\* the caller passes the same arguments on every invocation: the cache on,
\* force off, one maxTries and one maxRuns; the deny pattern may come and go
SteadyTries == {1, 2}
SteadyRuns == {0, 1, 2}
SteadyConfigs ==
  [ concurrency : {1}, useCache : {TRUE}, force : {FALSE},
    maxTries : SteadyTries, maxRuns : SteadyRuns, deny : BOOLEAN,
    mode : {"api_then_web"}, strict : StrictVals, allow429 : AllowVals,
    allow529 : AllowVals ]

InitSteady ==
  /\ InitLocals
  /\ \E n \in SteadyTries, m \in SteadyRuns : audit = AuditOn(n, m)

InvokeSteady ==
  InvokeWith(Batches,
             { c \in SteadyConfigs :
                 audit.on /\ c.maxTries = audit.maxTries /\ c.maxRuns = audit.maxRuns },
             MaxSteadyRuns)

NextSteady ==
  \/ InvokeSteady
  \/ ExecuteAsyncTasks
  \/ \E t \in TaskIds : TaskBegin(t)
  \/ \E t \in TaskIds : ApiResponse(t)
  \/ \E t \in TaskIds : WebResponse(t)
  \/ \E t \in TaskIds : TaskFinally(t)
  \/ Finish
  \/ Return
  \/ Tick

SpecSteady == InitSteady /\ [][NextSteady]_vars

\* the retry counter: the same maxTries on every invocation, no deny
\* pattern, force off, the cache enabled or not
MaxTriesRuns == 3
TriesRuns == {0, 2}
TriesConfigs ==
  [ concurrency : {1}, useCache : BOOLEAN, force : {FALSE},
    maxTries : SteadyTries, maxRuns : TriesRuns, deny : {FALSE},
    mode : {"api_then_web"}, strict : StrictVals, allow429 : AllowVals,
    allow529 : AllowVals ]

InitTries ==
  /\ InitLocals
  /\ \E n \in SteadyTries, m \in TriesRuns : audit = AuditOn(n, m)

InvokeTries ==
  InvokeWith(Batches,
             { c \in TriesConfigs :
                 audit.on /\ c.maxTries = audit.maxTries /\ c.maxRuns = audit.maxRuns },
             MaxTriesRuns)

NextTries ==
  \/ InvokeTries
  \/ ExecuteAsyncTasks
  \/ \E t \in TaskIds : TaskBegin(t)
  \/ \E t \in TaskIds : ApiResponse(t)
  \/ \E t \in TaskIds : WebResponse(t)
  \/ \E t \in TaskIds : TaskFinally(t)
  \/ Finish
  \/ Return
  \/ Tick

SpecTries == InitTries /\ [][NextTries]_vars

\* the round counter: the same maxRuns > 0 on every invocation, the cache
\* and force on or off
MaxRoundRuns == 3
RoundRuns == {1, 2}
RoundConfigs ==
  { c \in [ concurrency : {1}, useCache : BOOLEAN, force : BOOLEAN,
            maxTries : {2}, maxRuns : RoundRuns, deny : {FALSE},
            mode : {"api_only"}, strict : StrictVals, allow429 : AllowVals,
            allow529 : AllowVals ] :
      c.force => c.useCache }

InitRounds ==
  /\ InitLocals
  /\ \E m \in RoundRuns : audit = AuditOn(0, m)

InvokeRounds ==
  InvokeWith(Batches, { c \in RoundConfigs : audit.on /\ c.maxRuns = audit.maxRuns },
             MaxRoundRuns)

NextRounds ==
  \/ InvokeRounds
  \/ ExecuteAsyncTasks
  \/ \E t \in TaskIds : TaskBegin(t)
  \/ \E t \in TaskIds : ApiResponse(t)
  \/ \E t \in TaskIds : TaskFinally(t)
  \/ Finish
  \/ Return
  \/ Tick

SpecRounds == InitRounds /\ [][NextRounds]_vars

\* the scheduler under a concurrency argument that parses to 0 or below
\* (parseInt('0'), parseInt('-1') at line 43), next to the limit 1
MaxStallRuns == 1
StallConfigs ==
  [ concurrency : {0 - 1, 0, 1}, useCache : {TRUE}, force : {FALSE},
    maxTries : {2}, maxRuns : {2}, deny : {FALSE},
    mode : {"api_only", "api_then_web"}, strict : StrictVals, allow429 : AllowVals,
    allow529 : AllowVals ]

InvokeStall == InvokeWith(SchedBatches, StallConfigs, MaxStallRuns)

NextStall ==
  \/ InvokeStall
  \/ ExecuteAsyncTasks
  \/ \E t \in TaskIds : TaskBegin(t)
  \/ \E t \in TaskIds : ApiResponse(t)
  \/ \E t \in TaskIds : WebResponse(t)
  \/ \E t \in TaskIds : TaskFinally(t)
  \/ Finish
  \/ Return
  \/ Tick

SpecStall == Init /\ [][NextStall]_vars

\* the batch lock under arguments that change between invocations: maxRuns
\* over {0, 1, 2}, the cache and force on or off, one task at a time
LockTries == {0, 1}
LockRuns == {0, 1, 2}
LockConfigs ==
  { c \in [ concurrency : {1}, useCache : BOOLEAN, force : BOOLEAN,
            maxTries : LockTries, maxRuns : LockRuns, deny : BOOLEAN,
            mode : {"api_then_web"}, strict : StrictVals, allow429 : AllowVals,
            allow529 : AllowVals ] :
      c.force => c.useCache }

InvokeLock == InvokeWith(Batches, LockConfigs, MaxLockRuns)

NextLock ==
  \/ InvokeLock
  \/ ExecuteAsyncTasks
  \/ \E t \in TaskIds : TaskBegin(t)
  \/ \E t \in TaskIds : ApiResponse(t)
  \/ \E t \in TaskIds : WebResponse(t)
  \/ \E t \in TaskIds : TaskFinally(t)
  \/ Finish
  \/ Return
  \/ Tick

SpecLock == Init /\ [][NextLock]_vars

\* one invocation with the outcome of every request logged
InitProbe == InitLocals /\ audit = TraceOn
SpecProbe == InitProbe /\ [][NextSched]_vars

\* invocations of the operator with the outcome of every request logged:
\* the cache, force and deny on or off, the retry cap and the lock at 0 or 1
VerdictConfigs ==
  { c \in [ concurrency : {1}, useCache : BOOLEAN, force : BOOLEAN,
            maxTries : {0, 1}, maxRuns : {0, 1}, deny : BOOLEAN,
            mode : {"api_then_web"}, strict : StrictVals, allow429 : AllowVals,
            allow529 : AllowVals ] :
      c.force => c.useCache }

InvokeVerdict == InvokeWith(Batches, VerdictConfigs, MaxVerdictRuns)

NextVerdict ==
  \/ InvokeVerdict
  \/ ExecuteAsyncTasks
  \/ \E t \in TaskIds : TaskBegin(t)
  \/ \E t \in TaskIds : ApiResponse(t)
  \/ \E t \in TaskIds : WebResponse(t)
  \/ \E t \in TaskIds : TaskFinally(t)
  \/ Finish
  \/ Return
  \/ Tick

SpecVerdict == InitProbe /\ [][NextVerdict]_vars

\* Every started task eventually settles (its requests are answered, its
\* callbacks run) and the operator's own continuations run; the clock is
\* free to pass the deadline or not.
TaskStep ==
  \E t \in TaskIds : TaskBegin(t) \/ ApiResponse(t) \/ WebResponse(t) \/ TaskFinally(t)

SpecSchedFair ==
  /\ SpecSched
  /\ WF_vars(ExecuteAsyncTasks)
  /\ WF_vars(TaskStep)
  /\ WF_vars(Finish)
  /\ WF_vars(Return)

(* ============ gemini.js, v13: GPT & Gemini checked in parallel ========== *)
\* The second operator of gemini.js (lines 381-591).  It uses the same
\* executeAsyncTasks; its tasks send two requests at once and cache what
\* they found only when both requests brought a status.
MultiConfigs ==
  [ concurrency : ConcurrencyVals, useCache : BOOLEAN, force : {FALSE},
    maxTries : {0}, maxRuns : {0}, deny : {FALSE},
    mode : {"api_then_web"}, strict : StrictVals, allow429 : AllowVals,
    allow529 : AllowVals ]

\* line 412
getMultiCacheKey(p) == <<"ai_check_v13", getFingerprint(p)>>

\* line 488-489: hkRegex.test(originalProxy.name)
hkRegexTest(name) == \E i \in 1..Len(name) : name[i] = "HK"

\* what the GET to chatgpt.com resolves with: a status (0 when the response
\* carries none) and whether the body holds one of the blocking markers of
\* line 512; HttpThrow is a transport failure
GptResponses == [status : {0, 200, 403}, marker : BOOLEAN] \cup {HttpThrow}
\* what the GET to the Gemini API resolves with
GeminiResponses == [status : {0, 400, 403}] \cup {HttpThrow}

Pending == [pending |-> TRUE]
Outcome(status, ok) == [pending |-> FALSE, status |-> status, ok |-> ok]

\* lines 493-519: gptStatus and isGptOk after checkGPT
checkGPT(res) ==
  IF res = HttpThrow THEN Outcome(0, FALSE)
  ELSE Outcome(res.status,
               \/ res.status \in {200, 302, 429}
               \/ (res.status = 403 /\ ~res.marker))

\* lines 529-539: geminiStatus and isGeminiOk after the request of checkGemini
checkGemini(res) ==
  IF res = HttpThrow THEN Outcome(0, FALSE)
  ELSE Outcome(res.status, res.status = 400)

\* lines 523-527: checkGemini on a node whose name matches hkRegex
RegionBlocked == Outcome(403, FALSE)

\* lines 546-548: the value performNetworkCheck returns
MultiResult(g, m) ==
  [gpt |-> g.ok, gemini |-> m.ok, fully_checked |-> (g.status > 0 /\ m.status > 0)]

\* the defaults of gpt_prefix and gemini_prefix (lines 390-391)
gptPrefix == "[GPT] "
geminiPrefix == "[Gemini] "

\* lines 454-462: the prefix built for a result
prefixFor(r) ==
  (IF r.gemini THEN <<geminiPrefix>> ELSE << >>) \o (IF r.gpt THEN <<gptPrefix>> ELSE << >>)

\* lines 470-472: the name without its leading prefixes and white space
RECURSIVE cleanName(_)
cleanName(name) ==
  IF name # << >> /\ Head(name) \in {gptPrefix, geminiPrefix, " "}
  THEN cleanName(Tail(name))
  ELSE name

\* lines 452-476: the flags and the name applyPrefix gives a proxy
applyPrefix(proxy, r) ==
  [proxy EXCEPT !.gemini = @ \/ r.gemini,
                !.gpt = @ \/ r.gpt,
                !.name = IF prefixFor(r) # << >> THEN prefixFor(r) \o cleanName(@) ELSE @]

\* lines 409-424: the read loop from proxy i on
RECURSIVE MultiReadLoop(_, _, _, _)
MultiReadLoop(c, ps, i, acc) ==
  IF i > Len(ps) THEN acc
  ELSE LET key == getMultiCacheKey(ps[i])
           res == IF c.useCache THEN cacheGet(cache, key) ELSE NoRec
           fresh == [name |-> ps[i].name, server |-> ps[i].server,
                     gemini |-> FALSE, gpt |-> FALSE]
       IN MultiReadLoop(c, ps, i + 1,
            [proxies |-> Append(acc.proxies,
                           IF res # NoRec THEN applyPrefix(fresh, res) ELSE fresh),
             tasks |-> IF res # NoRec THEN acc.tasks
                       ELSE Append(acc.tasks, [proxy |-> i, cacheKey |-> key]),
             log |-> Append(acc.log,
                       [branch |-> IF res # NoRec THEN "cached" ELSE "task",
                        rec |-> res, after |-> cacheGet(cache, key)])])

\* operator (lines 381-427, 448): up to the call of executeAsyncTasks, or to
\* the return when no task was built
InvokeMulti ==
  /\ pc = "idle"
  /\ invocations < MaxMultiRuns
  /\ \E ps \in Batches, c \in MultiConfigs :
       LET acc == MultiReadLoop(c, ps, 1,
                    [proxies |-> << >>, tasks |-> << >>, log |-> << >>])
       IN /\ cfg' = c
          /\ proxies' = acc.proxies
          /\ tasks' = acc.tasks
          /\ readLog' = acc.log
          /\ tstate' = [t \in 1..Len(acc.tasks) |-> "queued"]
          /\ reqs' = [i \in 1..Len(ps) |-> 0]
          /\ tlog' = [t \in 1..Len(acc.tasks) |-> [threw |-> FALSE, late |-> FALSE]]
          /\ trace' = [t \in 1..Len(acc.tasks) |-> [gpt |-> Pending, gemini |-> Pending]]
          /\ pc' = IF acc.tasks = << >> THEN "returned" ELSE "call"
          /\ result' = IF acc.tasks = << >> THEN [i \in 1..Len(ps) |-> i] ELSE << >>
  /\ index' = 0
  /\ running' = 0
  /\ now' = 0
  /\ invocations' = invocations + 1
  /\ UNCHANGED <<cache, attemptedCount, batchKey, batchMeta, audit>>

\* lines 430-435 and 479-543: the task up to Promise.all; both requests are
\* sent at once, the Gemini one only when the name passes hkRegex
MultiTaskBegin(t) ==
  /\ tstate[t] = "started"
  /\ IF deadlinePassed
     THEN /\ tstate' = [tstate EXCEPT ![t] = "settled"]
          /\ UNCHANGED <<reqs, tlog, trace>>
     ELSE \E out \in ProduceOutcomes :
            CASE out = "throw" ->
                   /\ tstate' = [tstate EXCEPT ![t] = "threw"]
                   /\ tlog' = [tlog EXCEPT ![t].threw = TRUE]
                   /\ UNCHANGED <<reqs, trace>>
              [] out = "none" ->
                   /\ tstate' = [tstate EXCEPT ![t] = "settled"]
                   /\ UNCHANGED <<reqs, tlog, trace>>
              [] out = "node" ->
                   LET blocked == hkRegexTest(proxies[tasks[t].proxy].name) IN
                   /\ tstate' = [tstate EXCEPT ![t] = "probing"]
                   /\ reqs' = [reqs EXCEPT ![tasks[t].proxy] = IF blocked THEN 1 ELSE 2]
                   /\ trace' = [trace EXCEPT ![t].gemini =
                                  IF blocked THEN RegionBlocked ELSE Pending]
                   /\ UNCHANGED tlog
  /\ UNCHANGED <<cache, pc, cfg, proxies, tasks, index, running, attemptedCount, batchKey,
                 batchMeta, now, result, invocations, readLog, audit>>

\* the task caching whatever performNetworkCheck returned
MultiSettle_AlwaysCaches(t, g, m) ==
  IF g = Pending \/ m = Pending
  THEN UNCHANGED <<cache, proxies, tstate>>
  ELSE LET res == MultiResult(g, m) IN
       /\ cache' = IF cfg.useCache
                   THEN cacheSet(cache, tasks[t].cacheKey, res)
                   ELSE cache
       /\ proxies' = [proxies EXCEPT ![tasks[t].proxy] = applyPrefix(@, res)]
       /\ tstate' = [tstate EXCEPT ![t] = "settled"]

\* lines 435-441: once both checks are over (Promise.all, line 543) the task
\* caches the result if it is fully checked and applies the prefix
MultiSettle(t, g, m) ==
  IF g = Pending \/ m = Pending
  THEN UNCHANGED <<cache, proxies, tstate>>
  ELSE LET res == MultiResult(g, m) IN
       /\ cache' = IF cfg.useCache /\ res.fully_checked
                   THEN cacheSet(cache, tasks[t].cacheKey, res)
                   ELSE cache
       /\ proxies' = [proxies EXCEPT ![tasks[t].proxy] = applyPrefix(@, res)]
       /\ tstate' = [tstate EXCEPT ![t] = "settled"]

\* the request of checkGPT settles
GptResponse(t) ==
  /\ tstate[t] = "probing"
  /\ trace[t].gpt = Pending
  /\ \E res \in GptResponses :
       /\ trace' = [trace EXCEPT ![t].gpt = checkGPT(res)]
       /\ MultiSettle(t, checkGPT(res), trace[t].gemini)
  /\ UNCHANGED <<pc, cfg, tasks, index, running, attemptedCount, batchKey, batchMeta,
                 now, result, invocations, readLog, reqs, tlog, audit>>

\* the request of checkGemini settles
GeminiResponse(t) ==
  /\ tstate[t] = "probing"
  /\ trace[t].gemini = Pending
  /\ \E res \in GeminiResponses :
       /\ trace' = [trace EXCEPT ![t].gemini = checkGemini(res)]
       /\ MultiSettle(t, trace[t].gpt, checkGemini(res))
  /\ UNCHANGED <<pc, cfg, tasks, index, running, attemptedCount, batchKey, batchMeta,
                 now, result, invocations, readLog, reqs, tlog, audit>>

\* line 448: return proxies
MultiFinish ==
  /\ pc = "resolved"
  /\ result' = [i \in 1..Len(proxies) |-> i]
  /\ pc' = "returned"
  /\ now' = 0
  /\ UNCHANGED <<cache, cfg, proxies, tasks, tstate, index, running, attemptedCount,
                 batchKey, batchMeta, invocations, readLog, reqs, tlog, audit, trace>>

NextMulti ==
  \/ InvokeMulti
  \/ ExecuteAsyncTasks
  \/ \E t \in TaskIds : MultiTaskBegin(t)
  \/ \E t \in TaskIds : GptResponse(t)
  \/ \E t \in TaskIds : GeminiResponse(t)
  \/ \E t \in TaskIds : TaskFinally(t)
  \/ MultiFinish
  \/ Return
  \/ Tick

SpecMulti == Init /\ [][NextMulti]_vars

(* ======================= a cache that can fail ========================= *)
\* scriptResourceCache.get or .set throwing.  The operator has no try/catch
\* around its cache calls: an exception inside a task is swallowed by the
\* .catch(() => {}) of executeAsyncTasks (line 311), one outside a task
\* rejects the promise the operator returned (pc = "rejected").

\* line 80 or line 116 (108): a cache.get of the read phase throws
InvokeGetThrows ==
  /\ pc = "idle"
  /\ invocations < MaxSchedRuns
  /\ \E ps \in SchedBatches, c \in SchedConfigs :
       /\ c.useCache
       /\ cfg' = c
       /\ batchKey' = BatchKeys[ps]
       /\ proxies' = [i \in 1..Len(ps) |->
                       [name |-> ps[i].name, server |-> ps[i].server, isOk |-> "unset"]]
       /\ readLog' = [i \in 1..Len(ps) |->
                       [branch |-> "threw", rec |-> NoRec, after |-> NoRec]]
       /\ reqs' = [i \in 1..Len(ps) |-> 0]
  /\ pc' = "rejected"
  /\ invocations' = invocations + 1
  /\ UNCHANGED <<cache, tasks, tstate, index, running, attemptedCount, batchMeta, now,
                 result, tlog, audit, trace>>

\* lines 145-149: the last request of the probe settles and the cache.set
\* of line 149 throws; lines 152-153 are not reached
SetThrows(t) ==
  /\ tstate[t] \in {"api", "web"}
  /\ cfg.useCache
  /\ \E res \in Responses :
       LET ok == IF tstate[t] = "api" THEN checkAnthropicAPI(cfg, res)
                 ELSE checkClaudeWeb(res)
       IN /\ tstate[t] = "api" => (cfg.mode = "api_only" \/ ok)
          /\ trace' = IF ~audit.trace THEN trace
                      ELSE IF tstate[t] = "api"
                      THEN [trace EXCEPT ![t].api = outcomeOf(res, ok)]
                      ELSE [trace EXCEPT ![t].web = outcomeOf(res, ok)]
  /\ tstate' = [tstate EXCEPT ![t] = "threw"]
  /\ tlog' = [tlog EXCEPT ![t].threw = TRUE]
  /\ UNCHANGED <<cache, pc, cfg, proxies, tasks, index, running, attemptedCount,
                 batchKey, batchMeta, now, result, invocations, readLog, reqs, audit>>

\* lines 160-164: the cache.set of the batch update throws
FinishSetThrows ==
  /\ pc = "resolved"
  /\ cfg.useCache /\ ~cfg.force /\ cfg.maxRuns > 0 /\ attemptedCount > 0
  /\ pc' = "rejected"
  /\ UNCHANGED <<cache, cfg, proxies, tasks, tstate, index, running, attemptedCount,
                 batchKey, batchMeta, now, result, invocations, readLog, reqs, tlog,
                 audit, trace>>

\* the caller has seen the rejection; the locals are gone
ReturnRejected ==
  /\ pc = "rejected"
  /\ pc' = "idle"
  /\ cfg' = DefaultCfg
  /\ proxies' = << >>
  /\ tasks' = << >>
  /\ tstate' = << >>
  /\ index' = 0
  /\ running' = 0
  /\ attemptedCount' = 0
  /\ batchKey' = getBatchKey(<< >>)
  /\ batchMeta' = MetaRec(0, FALSE)
  /\ result' = << >>
  /\ readLog' = << >>
  /\ reqs' = << >>
  /\ tlog' = << >>
  /\ trace' = << >>
  /\ UNCHANGED <<cache, now, invocations, audit>>

NextFault ==
  \/ InvokeSched
  \/ InvokeGetThrows
  \/ ExecuteAsyncTasks
  \/ \E t \in TaskIds : TaskBegin(t)
  \/ \E t \in TaskIds : ApiResponse(t)
  \/ \E t \in TaskIds : WebResponse(t)
  \/ \E t \in TaskIds : SetThrows(t)
  \/ \E t \in TaskIds : TaskFinally(t)
  \/ Finish
  \/ FinishSetThrows
  \/ Return
  \/ ReturnRejected
  \/ Tick

SpecFault == InitProbe /\ [][NextFault]_vars

(* ================== two invocations on one cache ======================= *)
\* Two invocations of the operator, with the same arguments, over the same
\* node share the cache.  Each has its own locals, so in this specification
\* pc, proxies, tasks, batchMeta, attemptedCount, result, readLog and trace
\* are indexed by the invocation.  An invocation runs without suspending
\* from its entry to the first await of its task, and from the last
\* response of its probe to its return; the other invocation may run in
\* between.  One task under concurrency 1 starts in the microtask after the
\* read loop, so the deadline test of line 139 is false.
MaxRaceRuns == 3
Runs == {1, 2}
RaceNode == SchedNode(1)
RaceKey == getProxyCacheKey(RaceNode)
RaceBatchKey == getBatchKey(<<RaceNode>>)
RaceConfigs ==
  [ concurrency : {1}, useCache : {TRUE}, force : {FALSE},
    maxTries : {1, 2}, maxRuns : {0, 2}, deny : {FALSE},
    mode : {"api_only", "api_then_web"}, strict : StrictVals, allow429 : AllowVals,
    allow529 : AllowVals ]
NoTask == [absent |-> TRUE]
AllIdle == \A j \in Runs : pc[j] = "idle"

InitRace ==
  /\ cache = << >>
  /\ pc = [j \in Runs |-> "idle"]
  /\ cfg = DefaultCfg
  /\ proxies = [j \in Runs |-> [name |-> RaceNode.name, server |-> RaceNode.server,
                                isOk |-> "unset"]]
  /\ tasks = [j \in Runs |-> NoTask]
  /\ tstate = << >>
  /\ index = 0
  /\ running = 0
  /\ attemptedCount = [j \in Runs |-> 0]
  /\ batchKey = RaceBatchKey
  /\ batchMeta = [j \in Runs |-> MetaRec(0, FALSE)]
  /\ now = 0
  /\ result = [j \in Runs |-> << >>]
  /\ invocations = 0
  /\ readLog = [j \in Runs |-> [branch |-> "none", rec |-> NoRec, after |-> NoRec]]
  /\ reqs = << >>
  /\ tlog = << >>
  /\ audit = AuditOff
  /\ trace = [j \in Runs |-> [api |-> "none", web |-> "none"]]

\* lines 78-132 and the start of the one task (lines 297-311, 139-141)
RaceInvoke(j) ==
  /\ pc[j] = "idle"
  /\ invocations < MaxRaceRuns
  /\ \E c \in RaceConfigs :
       /\ AllIdle \/ c = cfg
       /\ LET stored == IF c.useCache THEN cacheGet(cache, RaceBatchKey) ELSE NoRec
              meta == IF stored # NoRec THEN stored ELSE MetaRec(0, FALSE)
              lock == shouldLock(c, meta)
              r == IF lock THEN LockedStep(c, cache, RaceNode)
                   ELSE ReadStep(c, cache, RaceNode)
          IN /\ cfg' = c
             /\ batchMeta' = [batchMeta EXCEPT ![j] = meta]
             /\ cache' = r.cache
             /\ proxies' = [proxies EXCEPT ![j].isOk = r.isOk]
             /\ readLog' = [readLog EXCEPT ![j] =
                              [branch |-> r.branch, rec |-> r.rec,
                               after |-> cacheGet(r.cache, RaceKey)]]
             /\ tasks' = [tasks EXCEPT ![j] =
                            IF r.branch = "task"
                            THEN [proxy |-> 1, cacheKey |-> RaceKey, tries |-> r.tries]
                            ELSE NoTask]
             /\ pc' = [pc EXCEPT ![j] = IF r.branch = "task" THEN "produce" ELSE "returned"]
             /\ result' = [result EXCEPT ![j] = IF r.isOk = "true" THEN <<1>> ELSE << >>]
  /\ attemptedCount' = [attemptedCount EXCEPT ![j] = 0]
  /\ trace' = [trace EXCEPT ![j] = [api |-> "none", web |-> "none"]]
  /\ invocations' = invocations + 1
  /\ UNCHANGED <<tstate, index, running, batchKey, now, reqs, tlog, audit>>

\* lines 159-166 for invocation j, from the cache ch the task left
raceFinish(j, ch, isOk, attempted) ==
  LET update == cfg.useCache /\ ~cfg.force /\ cfg.maxRuns > 0 /\ attempted > 0
      nextRuns == batchMeta[j].runs + 1
      meta == IF update THEN MetaRec(nextRuns, nextRuns >= cfg.maxRuns) ELSE batchMeta[j]
  IN /\ cache' = IF update THEN cacheSet(ch, RaceBatchKey, meta) ELSE ch
     /\ batchMeta' = [batchMeta EXCEPT ![j] = meta]
     /\ proxies' = [proxies EXCEPT ![j].isOk = isOk]
     /\ result' = [result EXCEPT ![j] = IF isOk = "true" THEN <<1>> ELSE << >>]
     /\ attemptedCount' = [attemptedCount EXCEPT ![j] = attempted]
     /\ pc' = [pc EXCEPT ![j] = "returned"]

\* lines 147-153 for invocation j, then the return
raceComplete(j, isOk) ==
  /\ raceFinish(j,
       IF cfg.useCache
       THEN cacheSet(cache, tasks[j].cacheKey, DecisionRec(isOk, tasks[j].tries + 1, FALSE))
       ELSE cache,
       IF isOk THEN "true" ELSE "false", attemptedCount[j])
  /\ tlog' = Append(tlog, [run |-> j, ok |-> isOk])

\* lines 141-145: the materializer answers
RaceProduce(j) ==
  /\ pc[j] = "produce"
  /\ \E out \in ProduceOutcomes :
       IF out = "node"
       THEN /\ pc' = [pc EXCEPT ![j] = IF cfg.mode = "web_only" THEN "web" ELSE "api"]
            /\ attemptedCount' = [attemptedCount EXCEPT ![j] = @ + 1]
            /\ UNCHANGED <<cache, batchMeta, proxies, result>>
       ELSE raceFinish(j, cache, "unset", 0)
  /\ UNCHANGED <<cfg, tasks, tstate, index, running, batchKey, now, invocations, readLog,
                 reqs, tlog, audit, trace>>

\* lines 170-181, 183-223: the API request of invocation j settles
RaceApiResponse(j) ==
  /\ pc[j] = "api"
  /\ \E res \in Responses :
       LET apiOk == checkAnthropicAPI(cfg, res)
       IN /\ IF cfg.mode = "api_only" \/ apiOk
             THEN raceComplete(j, apiOk)
             ELSE /\ pc' = [pc EXCEPT ![j] = "web"]
                  /\ UNCHANGED <<cache, batchMeta, proxies, result, attemptedCount, tlog>>
          /\ trace' = [trace EXCEPT ![j].api = outcomeOf(res, apiOk)]
  /\ UNCHANGED <<cfg, tasks, tstate, index, running, batchKey, now, invocations, readLog,
                 reqs, audit>>

\* lines 225-245: the Web request of invocation j settles
RaceWebResponse(j) ==
  /\ pc[j] = "web"
  /\ \E res \in Responses :
       /\ raceComplete(j, checkClaudeWeb(res))
       /\ trace' = [trace EXCEPT ![j].web = outcomeOf(res, checkClaudeWeb(res))]
  /\ UNCHANGED <<cfg, tasks, tstate, index, running, batchKey, now, invocations, readLog,
                 reqs, audit>>

\* the caller of invocation j has taken the returned list
RaceReturn(j) ==
  /\ pc[j] = "returned"
  /\ pc' = [pc EXCEPT ![j] = "idle"]
  /\ proxies' = [proxies EXCEPT ![j].isOk = "unset"]
  /\ tasks' = [tasks EXCEPT ![j] = NoTask]
  /\ attemptedCount' = [attemptedCount EXCEPT ![j] = 0]
  /\ batchMeta' = [batchMeta EXCEPT ![j] = MetaRec(0, FALSE)]
  /\ result' = [result EXCEPT ![j] = << >>]
  /\ readLog' = [readLog EXCEPT ![j] = [branch |-> "none", rec |-> NoRec, after |-> NoRec]]
  /\ trace' = [trace EXCEPT ![j] = [api |-> "none", web |-> "none"]]
  /\ UNCHANGED <<cache, cfg, tstate, index, running, batchKey, now, invocations, reqs,
                 tlog, audit>>

NextRace ==
  \/ \E j \in Runs : RaceInvoke(j)
  \/ \E j \in Runs : RaceProduce(j)
  \/ \E j \in Runs : RaceApiResponse(j)
  \/ \E j \in Runs : RaceWebResponse(j)
  \/ \E j \in Runs : RaceReturn(j)

SpecRace == InitRace /\ [][NextRace]_vars

(* ================= the success-only caching variant ==================== *)
\* src/unnamed/part_000, lines 1-140: the ChatGPT check that writes a record
\* only for a node that passed.  Its executeAsyncTasks (lines 120-139) is
\* the one of claude.js.  audit.failed is history: the cache keys of the
\* nodes whose probe has failed in some invocation.
MaxSuccessRuns == 2
SuccessConfigs ==
  { [DefaultCfg EXCEPT !.concurrency = k, !.useCache = u] : k \in {1, 2}, u \in BOOLEAN }
OkRec == [ok |-> TRUE]
\* line 39
getSuccessCacheKey(p) == <<"gpt_check_standalone_v2", getFingerprint(p)>>

\* lines 88-111: checkGPT
checkGPTPage(res) ==
  /\ res # HttpThrow
  /\ \/ res.status \in {200, 302, 429}
     \/ (res.status = 403 /\ ~res.marker)

InitSuccess ==
  /\ InitLocals
  /\ audit = [on |-> FALSE, trace |-> TRUE, failed |-> {}]

\* lines 37-53: one iteration of the read loop
SuccessReadStep(c, ch, p) ==
  LET cachedRes == IF c.useCache THEN cacheGet(ch, getSuccessCacheKey(p)) ELSE NoRec
  IN IF cachedRes # NoRec /\ cachedRes.ok = TRUE
     THEN [isOk |-> "true", branch |-> "cached", rec |-> cachedRes]
     ELSE [isOk |-> "unset", branch |-> "task", rec |-> cachedRes]

\* lines 15-58: the operator up to the call of executeAsyncTasks
InvokeSuccess ==
  /\ pc = "idle"
  /\ invocations < MaxSuccessRuns
  /\ \E ps \in Batches, c \in SuccessConfigs :
       LET step == [i \in 1..Len(ps) |-> SuccessReadStep(c, cache, ps[i])]
           asTask(i) == [proxy |-> i, cacheKey |-> getSuccessCacheKey(ps[i]), tries |-> 0]
           idx == SelectSeq([i \in 1..Len(ps) |-> i], LAMBDA i : step[i].branch = "task")
           ts == [t \in 1..Len(idx) |-> asTask(idx[t])]
       IN /\ cfg' = c
          /\ proxies' = [i \in 1..Len(ps) |->
                          [name |-> ps[i].name, server |-> ps[i].server,
                           isOk |-> step[i].isOk]]
          /\ tasks' = ts
          /\ readLog' = [i \in 1..Len(ps) |->
                          [branch |-> step[i].branch, rec |-> step[i].rec,
                           after |-> cacheGet(cache, getSuccessCacheKey(ps[i]))]]
          /\ tstate' = [t \in 1..Len(ts) |-> "queued"]
          /\ reqs' = [i \in 1..Len(ps) |-> 0]
          /\ tlog' = [t \in 1..Len(ts) |-> [threw |-> FALSE, late |-> FALSE]]
          /\ trace' = [t \in 1..Len(ts) |-> "none"]
          /\ pc' = IF ts = << >> THEN "returned" ELSE "call"
          /\ result' = IF ts = << >>
                       THEN SelectSeq([i \in 1..Len(ps) |-> i],
                                      LAMBDA i : step[i].isOk = "true")
                       ELSE << >>
  /\ index' = 0
  /\ running' = 0
  /\ attemptedCount' = 0
  /\ now' = 0
  /\ invocations' = invocations + 1
  /\ UNCHANGED <<cache, batchKey, batchMeta, audit>>

\* lines 62-65: the deadline test, ProxyUtils.produce, the request sent
SuccessTaskBegin(t) ==
  /\ tstate[t] = "started"
  /\ IF deadlinePassed
     THEN /\ tstate' = [tstate EXCEPT ![t] = "settled"]
          /\ UNCHANGED <<reqs, tlog>>
     ELSE \E out \in ProduceOutcomes :
            CASE out = "throw" ->
                   /\ tstate' = [tstate EXCEPT ![t] = "threw"]
                   /\ tlog' = [tlog EXCEPT ![t].threw = TRUE]
                   /\ UNCHANGED reqs
              [] out = "none" ->
                   /\ tstate' = [tstate EXCEPT ![t] = "settled"]
                   /\ UNCHANGED <<reqs, tlog>>
              [] out = "node" ->
                   /\ tstate' = [tstate EXCEPT ![t] = "probing"]
                   /\ reqs' = issue(t)
                   /\ UNCHANGED tlog
  /\ UNCHANGED <<cache, pc, cfg, proxies, tasks, index, running, attemptedCount, batchKey,
                 batchMeta, now, result, invocations, readLog, audit, trace>>

\* the task writing a record whatever the verdict
SuccessResponse_CachesFailure(t) ==
  /\ tstate[t] = "probing"
  /\ \E res \in GptResponses :
       LET isOk == checkGPTPage(res)
       IN /\ cache' = IF cfg.useCache
                      THEN cacheSet(cache, tasks[t].cacheKey, [ok |-> isOk])
                      ELSE cache
          /\ proxies' = [proxies EXCEPT ![tasks[t].proxy].isOk =
                           IF isOk THEN "true" ELSE "false"]
          /\ trace' = [trace EXCEPT ![t] = IF isOk THEN "accept" ELSE "reject"]
          /\ audit' = IF isOk THEN audit
                      ELSE [audit EXCEPT !.failed = @ \cup {tasks[t].cacheKey}]
  /\ tstate' = [tstate EXCEPT ![t] = "settled"]
  /\ tlog' = [tlog EXCEPT ![t].late = deadlinePassed]
  /\ UNCHANGED <<pc, cfg, tasks, index, running, attemptedCount, batchKey, batchMeta, now,
                 result, invocations, readLog, reqs>>

\* lines 65-73: checkGPT settles; the record, the verdict
SuccessResponse(t) ==
  /\ tstate[t] = "probing"
  /\ \E res \in GptResponses :
       LET isOk == checkGPTPage(res)
       IN /\ cache' = IF cfg.useCache /\ isOk
                      THEN cacheSet(cache, tasks[t].cacheKey, OkRec)
                      ELSE cache
          /\ proxies' = [proxies EXCEPT ![tasks[t].proxy].isOk =
                           IF isOk THEN "true" ELSE "false"]
          /\ trace' = [trace EXCEPT ![t] = IF isOk THEN "accept" ELSE "reject"]
          /\ audit' = IF isOk THEN audit
                      ELSE [audit EXCEPT !.failed = @ \cup {tasks[t].cacheKey}]
  /\ tstate' = [tstate EXCEPT ![t] = "settled"]
  /\ tlog' = [tlog EXCEPT ![t].late = deadlinePassed]
  /\ UNCHANGED <<pc, cfg, tasks, index, running, attemptedCount, batchKey, batchMeta, now,
                 result, invocations, readLog, reqs>>

\* line 79: the return
SuccessFinish ==
  /\ pc = "resolved"
  /\ result' = okIndices(proxies)
  /\ pc' = "returned"
  /\ now' = 0
  /\ UNCHANGED <<cache, cfg, proxies, tasks, tstate, index, running, attemptedCount,
                 batchKey, batchMeta, invocations, readLog, reqs, tlog, audit, trace>>

NextSuccess ==
  \/ InvokeSuccess
  \/ ExecuteAsyncTasks
  \/ \E t \in TaskIds : SuccessTaskBegin(t)
  \/ \E t \in TaskIds : SuccessResponse(t)
  \/ \E t \in TaskIds : TaskFinally(t)
  \/ SuccessFinish
  \/ Return
  \/ Tick

SpecSuccess == InitSuccess /\ [][NextSuccess]_vars

(* ===================== the classifiers as functions ==================== *)
\* What the classifiers of claude.js, gpt.js and gemini.js answer for one
\* response, over a wider set of responses and options than the engine
\* specifications draw from.  A behaviour classifies one response.

\* what JSON.parse yields for the bodies considered: null, an object that is
\* no error object, or an error object with or without its string fields
ParsedValues ==
  {JsonNull} \cup
  { j \in [isObj : {TRUE}, type : {"error", "message"}, errIsObj : BOOLEAN,
           etype : {"", "authentication_error", "forbidden"},
           etypeIsStr : BOOLEAN, msgIsStr : BOOLEAN] :
      /\ j.etypeIsStr <=> j.etype # ""
      /\ ~j.errIsObj => (~j.etypeIsStr /\ ~j.msgIsStr) }

\* a response body: whether JSON.parse accepts it, what it parses to, and
\* whether its text holds a region-block marker ("not supported in your
\* region", "unsupported_country", ...)
ClassifyBodies ==
  { b \in [json : BOOLEAN, parsed : ParsedValues, marker : BOOLEAN] :
      ~b.json => b.parsed = JsonNull }

ClassifyStatuses == {0, 200, 302, 400, 401, 403, 429, 529}
\* the Location header of the response: none, Google's /sorry page, another
Locations == {"none", "sorry", "other"}
ClassifyResponses ==
  [status : ClassifyStatuses, body : ClassifyBodies, location : Locations]
    \cup {HttpThrow}

\* strict, allow_429, allow_529 (claude.js 52-55), allow_403 (gpt.js 53)
ClassifyOptions ==
  [strict : BOOLEAN, allow429 : BOOLEAN, allow529 : BOOLEAN, allow403 : BOOLEAN]

\* claude.js 200: tryParseJson(body)
tryParseJson(body) == body.parsed

\* the response as checkAnthropicAPI sees it after lines 198-200
ParsedResponse(res) ==
  IF res = HttpThrow THEN HttpThrow
  ELSE [status |-> res.status, body |-> tryParseJson(res.body)]

\* gpt.js 241-243
looksLikeJson(body) == body.json

\* gpt.js 183-217
checkOpenAIAPI(o, res) ==
  IF res = HttpThrow THEN FALSE
  ELSE IF res.status = 429 THEN (IF o.allow429 THEN looksLikeJson(res.body) ELSE FALSE)
  ELSE IF res.status = 403 THEN (IF o.allow403 THEN looksLikeJson(res.body) ELSE FALSE)
  ELSE IF o.strict THEN (res.status = 401 /\ looksLikeJson(res.body))
  ELSE res.status = 401

\* gpt.js 219-239
checkChatGPTWeb(res) ==
  IF res = HttpThrow THEN FALSE ELSE res.status \in webOkStatuses

\* gemini.js 289-312: one of the patterns occurs in the body
looksLikeBlockedGoogle(body) == body.marker

\* gemini.js 244-287
checkGeminiWeb(o, res) ==
  IF res = HttpThrow THEN FALSE
  ELSE IF res.status \notin webOkStatuses THEN FALSE
  ELSE IF ~o.strict THEN TRUE
  ELSE IF looksLikeBlockedGoogle(res.body) THEN FALSE
  ELSE IF res.status = 302 THEN res.location # "sorry"
  ELSE TRUE

\* the response as checkGPT of gemini.js (v13) sees it
AsGptResponse(res) ==
  IF res = HttpThrow THEN HttpThrow
  ELSE [status |-> res.status, marker |-> res.body.marker]

ClassifyCfg(o) ==
  [DefaultCfg EXCEPT !.strict = o.strict, !.allow429 = o.allow429,
                     !.allow529 = o.allow529]

\* claude.js: checkAnthropicAPI and checkClaudeWeb on one response
ClassifyClaude ==
  /\ pc = "idle"
  /\ trace = << >>
  /\ \E o \in ClassifyOptions, res \in ClassifyResponses :
       /\ o.allow403 = FALSE
       /\ cfg' = ClassifyCfg(o)
       /\ trace' = << [script |-> "claude", opts |-> o, res |-> res,
                       api |-> checkAnthropicAPI(ClassifyCfg(o), ParsedResponse(res)),
                       web |-> checkClaudeWeb(res)] >>
  /\ UNCHANGED <<cache, pc, proxies, tasks, tstate, index, running, attemptedCount,
                 batchKey, batchMeta, now, result, invocations, readLog, reqs, tlog,
                 audit>>

\* gpt.js: checkOpenAIAPI and checkChatGPTWeb on one response
ClassifyOpenAI ==
  /\ pc = "idle"
  /\ trace = << >>
  /\ \E o \in ClassifyOptions, res \in ClassifyResponses :
       /\ o.allow529 = FALSE
       /\ cfg' = ClassifyCfg(o)
       /\ trace' = << [script |-> "gpt", opts |-> o, res |-> res,
                       api |-> checkOpenAIAPI(o, res),
                       web |-> checkChatGPTWeb(res)] >>
  /\ UNCHANGED <<cache, pc, proxies, tasks, tstate, index, running, attemptedCount,
                 batchKey, batchMeta, now, result, invocations, readLog, reqs, tlog,
                 audit>>

\* gemini.js: checkGeminiWeb (first operator) and checkGPT (v13) on one
\* response
ClassifyGemini ==
  /\ pc = "idle"
  /\ trace = << >>
  /\ \E o \in ClassifyOptions, res \in ClassifyResponses :
       /\ o.allow429 = FALSE /\ o.allow529 = FALSE /\ o.allow403 = FALSE
       /\ cfg' = ClassifyCfg(o)
       /\ trace' = << [script |-> "gemini", opts |-> o, res |-> res,
                       api |-> checkGPT(AsGptResponse(res)).ok,
                       web |-> checkGeminiWeb(o, res)] >>
  /\ UNCHANGED <<cache, pc, proxies, tasks, tstate, index, running, attemptedCount,
                 batchKey, batchMeta, now, result, invocations, readLog, reqs, tlog,
                 audit>>

NextClassify == ClassifyClaude \/ ClassifyOpenAI \/ ClassifyGemini

SpecClassify == Init /\ [][NextClassify]_vars

(* =================== fingerprints and keys as functions ================= *)
\* A proxy as the object it is: the sequence of its own enumerable
\* properties in insertion order, which is the order Object.entries lists
\* them in.  A behaviour fingerprints one pair of proxies, or keys one pair
\* of proxies lists.
FieldKeys == {"name", "_isOk", "server", "port"}
FieldValues == {"s1", "s2"}

Range(f) == { f[i] : i \in DOMAIN f }

Objects ==
  UNION { { o \in [1..n -> [k : FieldKeys, v : FieldValues]] :
              \A i, j \in 1..n : o[i].k = o[j].k => i = j } :
          n \in 0..MaxFields }

\* a.localeCompare(b) < 0 for the keys that occur (lower case ASCII letters)
KeyLess(a, b) == StrLess(CharCodes[a], CharCodes[b])

\* .sort(([a], [b]) => a.localeCompare(b))
RECURSIVE InsertEntry(_, _)
InsertEntry(e, es) ==
  IF es = << >> THEN <<e>>
  ELSE IF KeyLess(e.k, Head(es).k) THEN <<e>> \o es
  ELSE <<Head(es)>> \o InsertEntry(e, Tail(es))

RECURSIVE SortEntries(_)
SortEntries(es) ==
  IF es = << >> THEN << >>
  ELSE InsertEntry(es[Len(es)], SortEntries(SubSeq(es, 1, Len(es) - 1)))

\* .filter(([key]) => !/^(name|collectionName|subName|id|_.*)$/i.test(key))
FilterEntries(o) == SelectSeq(o, LAMBDA e : ~IsVolatileKey(e.k))

\* JSON.stringify(Object.fromEntries(entries)) for string values
RECURSIVE StringifyEntries(_)
StringifyEntries(es) ==
  IF es = << >> THEN << >>
  ELSE LET e == Quote(Head(es).k) \o <<58>> \o Quote(Head(es).v)
       IN IF Len(es) = 1 THEN e ELSE e \o <<44>> \o StringifyEntries(Tail(es))

\* the entries as inserted, never sorted
getFingerprintOf_Unsorted(o) ==
  <<123>> \o StringifyEntries(FilterEntries(o)) \o <<125>>

\* claude.js 290-295: getFingerprint on the object
getFingerprintOf(o) ==
  <<123>> \o StringifyEntries(SortEntries(FilterEntries(o))) \o <<125>>

\* gemini.js 745-747 (v9) and the cache id of sub-store.js 61-67: the
\* filtered entries are serialized in insertion order
getFingerprintV9(o) ==
  <<123>> \o StringifyEntries(FilterEntries(o)) \o <<125>>

\* the object as the record the engine specifications use
AsRecord(o) == [k \in { e.k : e \in Range(o) } |->
                  (CHOOSE e \in Range(o) : e.k = k).v]

FingerprintPair ==
  /\ pc = "idle"
  /\ trace = << >>
  /\ \E n1, n2 \in Objects :
       trace' = << [script |-> "fingerprint", n1 |-> n1, n2 |-> n2,
                    fp1 |-> getFingerprintOf(n1), fp2 |-> getFingerprintOf(n2),
                    v9a |-> getFingerprintV9(n1), v9b |-> getFingerprintV9(n2)] >>
  /\ UNCHANGED <<cache, pc, cfg, proxies, tasks, tstate, index, running, attemptedCount,
                 batchKey, batchMeta, now, result, invocations, readLog, reqs, tlog,
                 audit>>

\* the nodes of the proxies lists that are keyed: two labels, four servers
KeyPool ==
  [name : {<<"a">>, <<"HK">>}, server : {"s1", "s2", "a2", "cp"}]

KeyBatches == UNION { [1..n -> KeyPool] : n \in 0..MaxBatchLen }

\* the second list is drawn next to the first: one node more, one node
\* less, one node changed, or the same nodes in another order
Near(ps, qs) ==
  \/ /\ Len(qs) = Len(ps)
     /\ \/ Cardinality({ i \in 1..Len(ps) : ps[i] # qs[i] }) <= 1
        \/ \E f \in [1..Len(ps) -> 1..Len(ps)] :
             /\ \A i, j \in 1..Len(ps) : f[i] = f[j] => i = j
             /\ qs = [i \in 1..Len(ps) |-> ps[f[i]]]
  \/ \E i \in 1..Len(qs) :
       ps = [j \in 1..(Len(qs) - 1) |-> IF j < i THEN qs[j] ELSE qs[j + 1]]
  \/ \E i \in 1..Len(ps) :
       qs = [j \in 1..(Len(ps) - 1) |-> IF j < i THEN ps[j] ELSE ps[j + 1]]

BatchKeyPair ==
  /\ pc = "idle"
  /\ trace = << >>
  /\ \E ps, qs \in KeyBatches :
       /\ Near(ps, qs)
       /\ trace' = << [script |-> "batchKey", ps |-> ps, qs |-> qs,
                       k1 |-> getBatchKey(ps), k2 |-> getBatchKey(qs)] >>
  /\ UNCHANGED <<cache, pc, cfg, proxies, tasks, tstate, index, running, attemptedCount,
                 batchKey, batchMeta, now, result, invocations, readLog, reqs, tlog,
                 audit>>

NextKeys == FingerprintPair \/ BatchKeyPair

SpecKeys == Init /\ [][NextKeys]_vars

(* ============================ labelling ================================ *)
\* The renaming functions on one node: after LabelBegin has chosen the node,
\* the script and (for the GPT & Gemini scripts) the result, the label is
\* applied again and again, as it is when the renamed node is handed to a
\* later invocation.
prefixStr == "[Claude] "            \* claude.js 48, the default of prefix

NameParts == {"a", " ", prefixStr, gptPrefix, geminiPrefix}
Names == UNION { [1..n -> NameParts] : n \in 0..MaxNameLen }
MultiResults == [gpt : BOOLEAN, gemini : BOOLEAN]

\* proxy.name.includes(prefixStr)
nameIncludes(name, pre) == \E i \in 1..Len(name) : name[i] = pre

\* claude.js 262-266
addPrefix(proxy) ==
  IF ~nameIncludes(proxy.name, prefixStr)
  THEN [proxy EXCEPT !.name = <<prefixStr>> \o @]
  ELSE proxy

\* part_006 72-85 (and gemini.js 677-689, v9): the rename inside check
renameInCheck(proxy, r) ==
  [proxy EXCEPT !.gemini = @ \/ r.gemini,
                !.gpt = @ \/ r.gpt,
                !.name = prefixFor(r) \o @]

\* the label of the chosen script applied to a proxy
labelOf(script, proxy, r) ==
  CASE script = "claude" -> addPrefix(proxy)
    [] script = "v13" -> applyPrefix(proxy, r)
    [] script = "part_006" -> renameInCheck(proxy, r)

LabelScripts == {"claude", "v13", "part_006"}

LabelBegin ==
  /\ pc = "idle"
  /\ trace = << >>
  /\ \E name \in Names, script \in LabelScripts, r \in MultiResults :
       LET node == [name |-> name, server |-> "s1", gemini |-> FALSE, gpt |-> FALSE] IN
       /\ (script = "claude") => (r.gpt /\ r.gemini)
       /\ proxies' = <<node>>
       /\ trace' = << [script |-> script, r |-> r, applied |-> 0,
                       once |-> labelOf(script, node, r).name] >>
  /\ UNCHANGED <<cache, pc, cfg, tasks, tstate, index, running, attemptedCount,
                 batchKey, batchMeta, now, result, invocations, readLog, reqs, tlog,
                 audit>>

\* the accepted node is labelled (once more)
LabelApply ==
  /\ pc = "idle"
  /\ trace # << >>
  /\ trace[1].script \in LabelScripts
  /\ trace[1].applied < MaxApply
  /\ proxies' = <<labelOf(trace[1].script, proxies[1], trace[1].r)>>
  /\ trace' = <<[trace[1] EXCEPT !.applied = @ + 1]>>
  /\ UNCHANGED <<cache, pc, cfg, tasks, tstate, index, running, attemptedCount,
                 batchKey, batchMeta, now, result, invocations, readLog, reqs, tlog,
                 audit>>

NextLabel == LabelBegin \/ LabelApply

SpecLabel == Init /\ [][NextLabel]_vars

(* ======================= claims about the scheduler ==================== *)
\* the tasks that have been started and have not finished
InFlight == { t \in TaskIds : tstate[t] \in {"started", "api", "web", "settled", "threw"} }
Queued == { t \in TaskIds : tstate[t] = "queued" }
AllFinished == \A t \in TaskIds : tstate[t] = "finished"

\* C1: in every reachable state the number of tasks started and not yet
\* finished is at most the concurrency limit (and `running` counts them).
C1_ConcurrencyBound ==
  /\ Cardinality(InFlight) <= cfg.concurrency
  /\ running = Cardinality(InFlight)

\* C1 witness: more tasks than slots, every slot taken by a task whose
\* request is out, a task still waiting.
C1_Witness ==
  /\ Len(tasks) > cfg.concurrency
  /\ Cardinality({ t \in TaskIds : tstate[t] \in {"api", "web"} }) = cfg.concurrency
  /\ Queued # {}

\* C2: once the deadline has passed the scheduler starts no further task; a
\* task body that begins after it issues no request (and attempts, writes
\* nothing); a task whose request is out is not interrupted: whatever the
\* clock says its only steps are the fallback request and the completion
\* that sets the verdict and, with the cache enabled, writes the record.
C2_DeadlineGatesStarts ==
  [][ /\ deadlinePassed =>
           /\ index' = index
           /\ \A t \in Queued : t \in DOMAIN tstate' /\ tstate'[t] = "queued"
      /\ \A t \in TaskIds :
           (deadlinePassed /\ tstate[t] = "started") =>
              /\ t \in DOMAIN tstate'
              /\ tstate'[t] \in {"started", "settled"}
              /\ tstate'[t] = "settled" =>
                    /\ reqs' = reqs
                    /\ attemptedCount' = attemptedCount
                    /\ cache' = cache
                    /\ proxies' = proxies
      /\ \A t \in TaskIds :
           tstate[t] \in {"api", "web"} =>
              /\ t \in DOMAIN tstate'
              /\ \/ tstate'[t] = tstate[t]
                 \/ tstate[t] = "api" /\ tstate'[t] = "web"
                 \/ /\ tstate'[t] = "settled"
                    /\ proxies'[tasks[t].proxy].isOk # "unset"
                    /\ cfg.useCache =>
                         /\ tasks[t].cacheKey \in DOMAIN cache'
                         /\ cache'[tasks[t].cacheKey].ok = (proxies'[tasks[t].proxy].isOk = "true")
    ]_vars

\* C2 witness: the scheduler has resolved past the deadline with a task never
\* started, and a task that was in flight wrote its verdict after the
\* deadline.
C2_Witness ==
  /\ pc = "resolved"
  /\ deadlinePassed
  /\ Queued # {}
  /\ \E t \in TaskIds : tlog[t].late /\ tstate[t] = "finished"
                        /\ proxies[tasks[t].proxy].isOk # "unset"

\* C3: executeAsyncTasks resolves only with no task in flight, and then
\* either every task has been started and has finished or the deadline has
\* passed.
C3_ResolveCondition ==
  pc = "resolved" =>
    /\ InFlight = {}
    /\ running = 0
    /\ AllFinished \/ deadlinePassed

\* C3 witness: resolved by the deadline with part of the list run.
C3_Witness ==
  /\ pc = "resolved"
  /\ deadlinePassed
  /\ Queued # {}
  /\ \E t \in TaskIds : tstate[t] = "finished"

\* C4: if every started task eventually finishes, executeAsyncTasks
\* eventually resolves, whether or not the deadline passes on the way.
C4_EventuallyResolves == (pc = "call") ~> (pc = "resolved")

\* C4 witness: a list longer than the limit has been run to its end before
\* the deadline.
C4_Witness ==
  /\ pc = "resolved"
  /\ ~deadlinePassed
  /\ Len(tasks) > cfg.concurrency
  /\ AllFinished

\* C5: called with a deadline already in the past, executeAsyncTasks starts
\* no task and resolves in that very call.
C5_PastDeadline ==
  [][ (pc = "call" /\ deadlinePassed) =>
        /\ pc' = "resolved"
        /\ index' = 0
        /\ running' = 0
        /\ tstate' = tstate
        /\ reqs' = reqs
    ]_vars

\* C5 witness: resolved with a non-empty list of which nothing was started.
C5_Witness ==
  /\ pc = "resolved"
  /\ deadlinePassed
  /\ Len(tasks) > 0
  /\ index = 0
  /\ \A t \in TaskIds : tstate[t] = "queued"

\* C6: a task that throws releases its slot, does not stop the others and
\* does not keep the scheduler from resolving: `running` still counts the
\* tasks in flight, a resolution before the deadline finds every task
\* finished, and a throw is always followed by the resolution.
C6_ThrowIsSwallowed ==
  /\ [](running = Cardinality(InFlight))
  /\ []((pc = "resolved" /\ ~deadlinePassed) => AllFinished)
  /\ ((\E t \in TaskIds : tstate[t] = "threw") ~> (pc = "resolved"))

\* C6 witness: resolved before the deadline, a task threw, and the tasks
\* queued behind it were run.
C6_Witness ==
  /\ pc = "resolved"
  /\ ~deadlinePassed
  /\ Len(tasks) > cfg.concurrency
  /\ AllFinished
  /\ \E t \in TaskIds : tlog[t].threw
  /\ \E t \in TaskIds : ~tlog[t].threw /\ proxies[tasks[t].proxy].isOk # "unset"


(* =================== claims about the decision cache =================== *)
ProxyIds == 1..Len(proxies)
HasTask(i) == \E t \in TaskIds : tasks[t].proxy = i
Returned(i) == \E k \in 1..Len(result) : result[k] = i
\* the record the read loop read for proxy i, and whether it is a success
ReadRec(i) == readLog[i].rec
ReadOk(i) == ReadRec(i) # NoRec /\ ReadRec(i).ok = TRUE
Denied(i) == denyTest(cfg, proxies[i].name)
SameKey(i, j) == getProxyCacheKey(proxies[i]) = getProxyCacheKey(proxies[j])

\* C7: with the cache enabled, a node whose record reads ok=true and whose
\* label matches no deny pattern is accepted without a probe task and
\* without a request, whatever its tries, maxTries and force, in every
\* invocation, and it is in the returned list.
C7_SuccessSticky ==
  \A i \in ProxyIds :
    (cfg.useCache /\ ReadOk(i) /\ ~Denied(i)) =>
      /\ proxies[i].isOk = "true"
      /\ ~HasTask(i)
      /\ reqs[i] = 0
      /\ pc = "returned" => Returned(i)

\* C7 witness: a second invocation returned a node from its ok=true record
\* although the record's tries had reached maxTries.
C7_Witness ==
  /\ pc = "returned"
  /\ invocations = 2
  /\ ~cfg.force
  /\ \E i \in ProxyIds :
       /\ cfg.useCache /\ ReadOk(i) /\ ~Denied(i)
       /\ cfg.maxTries > 0 /\ ReadRec(i).tries >= cfg.maxTries
       /\ readLog[i].branch = "cached"
       /\ Returned(i)

\* the hypothesis of the retry cap: force off, a positive cap, a record read
\* with ok not true and tries at or above the cap
AtCap(i) ==
  /\ ~cfg.force
  /\ cfg.maxTries > 0
  /\ ReadRec(i) # NoRec
  /\ ReadRec(i).ok # TRUE
  /\ ReadRec(i).tries >= cfg.maxTries

\* C8 as stated: every node at the cap is rejected without a task or a
\* request and its record is left as it was read.
C8_Original ==
  \A i \in ProxyIds :
    AtCap(i) =>
      /\ proxies[i].isOk = "false"
      /\ ~HasTask(i)
      /\ reqs[i] = 0
      /\ readLog[i].after = ReadRec(i)

\* C8 amended: a node at the cap whose label matches no deny pattern is
\* rejected without a task or a request and is not returned; the read loop
\* writes nothing for it, and its record stays as read through the whole
\* invocation unless a node of the batch with the same fingerprint matches
\* the deny pattern.
C8_RetryCap ==
  \A i \in ProxyIds :
    (AtCap(i) /\ ~Denied(i)) =>
      /\ proxies[i].isOk = "false"
      /\ ~HasTask(i)
      /\ reqs[i] = 0
      /\ readLog[i].after = ReadRec(i)
      /\ pc = "returned" => ~Returned(i)
      /\ (\A j \in ProxyIds : SameKey(i, j) => ~Denied(j)) =>
            cacheGet(cache, getProxyCacheKey(proxies[i])) = ReadRec(i)

\* C8 witness: an invocation returned after giving up on a node at the cap.
C8_Witness ==
  /\ pc = "returned"
  /\ \E i \in ProxyIds :
       /\ AtCap(i) /\ ~Denied(i)
       /\ readLog[i].branch = "giveup"
       /\ proxies[i].isOk = "false"
       /\ ~Returned(i)

C10_RecordResult ==
  [][ \A t \in TaskIds :
        ( /\ cfg.useCache
          /\ tstate[t] \in {"api", "web"}
          /\ t \in DOMAIN tstate'
          /\ tstate'[t] = "settled" ) =>
            /\ proxies'[tasks[t].proxy].isOk # "unset"
            /\ tasks[t].cacheKey = getProxyCacheKey(proxies[tasks[t].proxy])
            /\ cacheGet(cache', tasks[t].cacheKey) =
                 DecisionRec(proxies'[tasks[t].proxy].isOk = "true",
                             triesOf(ReadRec(tasks[t].proxy)) + 1, FALSE)
    ]_vars

\* C10 witness: a probe of a node that had a record completed, and the cache
\* holds the record with the tries read plus one.
C10_Witness ==
  /\ cfg.useCache
  /\ \E t \in TaskIds :
       LET i == tasks[t].proxy IN
       /\ tstate[t] = "settled"
       /\ proxies[i].isOk = "true"
       /\ ReadRec(i) # NoRec
       /\ cacheGet(cache, tasks[t].cacheKey) = DecisionRec(TRUE, ReadRec(i).tries + 1, FALSE)


(* ============== claims about the retry cap and the batch lock =========== *)
\* the most nodes of one batch that share a decision key
SameKeyCount(ps, i) ==
  Cardinality({ j \in 1..Len(ps) : getProxyCacheKey(ps[j]) = getProxyCacheKey(ps[i]) })
MaxSameKey ==
  CHOOSE n \in 1..MaxNodes :
    /\ \A ps \in Batches : \A i \in 1..Len(ps) : SameKeyCount(ps, i) <= n
    /\ \E ps \in Batches : \E i \in 1..Len(ps) : SameKeyCount(ps, i) = n

\* C11 as stated: with the cache on, force off and the same maxTries = N > 0
\* on every invocation, from an empty cache, no decision key is ever probed
\* more than N times in total.
C11_Original ==
  audit.on => \A k \in DOMAIN audit.probes : audit.probes[k] <= audit.maxTries

\* C11 amended: under the same arguments a decision key is probed in at most
\* N invocations, and in one invocation once per node of the batch that has
\* that key, so at most N times the number of such nodes in one batch; a
\* node whose tries read N or more gets no task.
C11_RetryTotal ==
  audit.on =>
    /\ \A k \in DOMAIN audit.probes :
         /\ countOf(audit.keyRounds, k) <= audit.maxTries
         /\ audit.probes[k] <= countOf(audit.keyRounds, k) * MaxSameKey
    /\ \A i \in ProxyIds : reqs[i] > 0 => triesOf(ReadRec(i)) < audit.maxTries
    /\ \A t \in TaskIds : tstate[t] \in {"api", "web"} => reqs[tasks[t].proxy] \in {1, 2}

\* C11 witness: maxTries = 2; a key was probed in two invocations and the
\* third invocation gave up on a node with that key.
C11_Witness ==
  /\ audit.on
  /\ audit.maxTries = 2
  /\ pc = "returned"
  /\ \E i \in ProxyIds :
       /\ readLog[i].branch = "giveup"
       /\ countOf(audit.keyRounds, getProxyCacheKey(proxies[i])) = 2
       /\ countOf(audit.probes, getProxyCacheKey(proxies[i])) >= 2


\* the Batch Meta Record M probing rounds leave behind under maxRuns = m
MetaAfter(n, m) == IF n = 0 THEN NoRec ELSE MetaRec(n, n >= m)

\* the batch keys the cache holds a record for
MetaKeys == { k \in DOMAIN cache : k[1] = "claude_check_batch_v2" }

\* C12: with the cache on, force off and the same maxRuns = M > 0 on every
\* invocation, a batch key sees at most M probing rounds; its stored record
\* counts them and is locked exactly from the M-th on; an invocation on a
\* batch key that has had its M rounds takes the cache-only path: no task, no
\* request, and it returns exactly the nodes whose record has ok=true.
C12_BatchLock ==
  (audit.on /\ audit.maxRuns > 0) =>
    /\ \A bk \in MetaKeys \cup DOMAIN audit.rounds :
         /\ countOf(audit.rounds, bk) <= audit.maxRuns
         /\ cacheGet(cache, bk) = MetaAfter(countOf(audit.rounds, bk), audit.maxRuns)
    /\ (pc # "idle" /\ attemptedCount = 0
        /\ countOf(audit.rounds, batchKey) = audit.maxRuns) =>
         /\ pc = "returned"
         /\ tasks = << >>
         /\ \A i \in ProxyIds :
              /\ readLog[i].branch = "locked"
              /\ reqs[i] = 0
              /\ Returned(i) <=> ReadOk(i)

\* C12 witness: maxRuns = 2; the third invocation on a batch that was probed
\* in two rounds returned one of its two nodes from the cache and rejected
\* the other, without a request.
C12_Witness ==
  /\ audit.on
  /\ audit.maxRuns = 2
  /\ invocations = 3
  /\ pc = "returned"
  /\ attemptedCount = 0
  /\ countOf(audit.rounds, batchKey) = 2
  /\ \E i, j \in ProxyIds :
       /\ readLog[i].branch = "locked" /\ Returned(i)
       /\ readLog[j].branch = "locked" /\ ~Returned(j)


\* the invocation took the cache-only path (lines 85-97)
LockPath == \A i \in ProxyIds : readLog[i].branch = "locked"
\* the batch update of lines 160-164 has not run in this invocation
BeforeUpdate ==
  pc \in {"call", "sched", "resolved"} \/ (pc = "returned" /\ attemptedCount = 0)
\* the stored Batch Meta Record of the batch, {runs: 0, locked: false} when absent
StoredMeta ==
  LET r == cacheGet(cache, batchKey) IN IF r = NoRec THEN MetaRec(0, FALSE) ELSE r
\* isLocked(meta, maxRuns, force) as the claim states it
isLocked(meta) ==
  ~cfg.force /\ cfg.maxRuns > 0 /\ (meta.locked = TRUE \/ meta.runs >= cfg.maxRuns)

\* C13 as stated: an invocation on a non-empty batch takes the cache-only
\* path exactly when isLocked holds of the stored Batch Meta Record.
C13_Original ==
  (BeforeUpdate /\ Len(proxies) > 0) => (LockPath <=> isLocked(StoredMeta))

\* C13 amended: an invocation on a non-empty batch takes the cache-only path
\* exactly when the cache is enabled and isLocked holds of the stored Batch
\* Meta Record; with the cache disabled the stored record is not read, and
\* with maxRuns <= 0 the batch is never locked.
C13_LockTest ==
  (BeforeUpdate /\ Len(proxies) > 0) =>
    /\ LockPath <=> (cfg.useCache /\ isLocked(StoredMeta))
    /\ batchMeta = IF cfg.useCache THEN StoredMeta ELSE MetaRec(0, FALSE)
    /\ cfg.maxRuns <= 0 => ~LockPath
    /\ LockPath => (pc = "returned" /\ tasks = << >>)

\* C13 witness: a batch took the cache-only path on the locked flag alone,
\* its run count being below the maxRuns of the invocation.
C13_Witness ==
  /\ pc = "returned"
  /\ Len(proxies) > 0
  /\ LockPath
  /\ StoredMeta.locked = TRUE
  /\ StoredMeta.runs < cfg.maxRuns


\* C14: a step changes a stored Batch Meta Record only when it is the batch
\* update of an invocation with attemptedCount > 0, the cache on, force off
\* and maxRuns > 0; the record written for the batch key is then
\* {runs: runs + 1, locked: runs + 1 >= maxRuns}, runs being the count read at
\* the start (0 when absent).  The update of a round without a probe writes
\* nothing.
C14_Advance ==
  [][ /\ \A k \in DOMAIN cache' :
           (k[1] = "claude_check_batch_v2" /\ cacheGet(cache, k) # cache'[k]) =>
             /\ pc = "resolved" /\ pc' = "returned"
             /\ k = batchKey
             /\ attemptedCount > 0
             /\ cfg.useCache /\ ~cfg.force /\ cfg.maxRuns > 0
             /\ cache'[k] = MetaRec(StoredMeta.runs + 1, StoredMeta.runs + 1 >= cfg.maxRuns)
      /\ (pc = "resolved" /\ pc' = "returned" /\ attemptedCount = 0) =>
           cacheGet(cache', batchKey) = cacheGet(cache, batchKey)
    ]_vars

\* C14 witness: the first round on a batch wrote {runs: 1, locked: false}
\* under maxRuns = 2; the second round built a task, attempted no probe and
\* returned with the record as it was.
C14_Witness ==
  /\ invocations = 2
  /\ pc = "returned"
  /\ cfg.useCache /\ ~cfg.force /\ cfg.maxRuns = 2
  /\ tasks # << >>
  /\ attemptedCount = 0
  /\ cacheGet(cache, batchKey) = MetaRec(1, FALSE)


Unprobed(t) == reqs[tasks[t].proxy] = 0
\* no node of the batch with the key of proxy i was denied or probed
KeyUntouched(i) ==
  \A j \in ProxyIds :
    SameKey(i, j) => (readLog[j].branch # "denied" /\ reqs[j] = 0)

ProbeDone(t) == tstate[t] \in {"settled", "finished"} /\ ~Unprobed(t)
\* every request the probe of task t sent ended in a transport failure
AllThrew(t) ==
  /\ ProbeDone(t)
  /\ trace[t].api \in {"none", "threw"}
  /\ trace[t].web \in {"none", "threw"}

\* C18 as stated: a probe whose requests failed at transport level gives the
\* node neither accept nor reject, and the cache holds for the node's key
\* what the read loop read: no ok=false record is written, tries is not
\* incremented.
C18_Original ==
  \A t \in TaskIds :
    AllThrew(t) =>
      /\ proxies[tasks[t].proxy].isOk = "unset"
      /\ cacheGet(cache, tasks[t].cacheKey) = ReadRec(tasks[t].proxy)


(* ======================= claims about the probe ======================== *)
\* the API / the Web request of task t has been sent
ApiIssued(t) == tstate[t] = "api" \/ trace[t].api # "none"
WebIssued(t) == tstate[t] = "web" \/ trace[t].web # "none"
\* the verdict the task gave its node
VerdictOf(t) == proxies[tasks[t].proxy].isOk
AsVerdict(outcome) == IF outcome = "accept" THEN "true" ELSE "false"

\* C20: in api_then_web the API request is sent first and the Web request is
\* sent iff the API request has ended with a verdict of false (a reject or a
\* transport failure); the verdict of the probe is then the Web verdict, and
\* an API accept is the verdict with no Web request.  In api_only only the API
\* request is sent, in web_only only the Web request, and the verdict is
\* theirs.  A probe sends at most two requests.
C20_SequentialFallback ==
  \A t \in TaskIds :
    LET i == tasks[t].proxy IN
    /\ reqs[i] = (IF ApiIssued(t) THEN 1 ELSE 0) + (IF WebIssued(t) THEN 1 ELSE 0)
    /\ reqs[i] <= 2
    /\ cfg.mode = "api_then_web" =>
         /\ WebIssued(t) <=> trace[t].api \in {"reject", "threw"}
         /\ WebIssued(t) => ApiIssued(t)
         /\ ProbeDone(t) =>
              VerdictOf(t) = IF WebIssued(t) THEN AsVerdict(trace[t].web)
                             ELSE AsVerdict(trace[t].api)
         /\ (ProbeDone(t) /\ ~WebIssued(t)) => trace[t].api = "accept"
    /\ cfg.mode = "api_only" =>
         /\ ~WebIssued(t)
         /\ ProbeDone(t) => (ApiIssued(t) /\ VerdictOf(t) = AsVerdict(trace[t].api))
    /\ cfg.mode = "web_only" =>
         /\ ~ApiIssued(t)
         /\ ProbeDone(t) => (WebIssued(t) /\ VerdictOf(t) = AsVerdict(trace[t].web))

\* C20 witness: in api_then_web one probe ended on an API accept after one
\* request, another on a Web accept after an API reject, two requests.
C20_Witness ==
  /\ cfg.mode = "api_then_web"
  /\ \E t \in TaskIds :
       /\ ProbeDone(t) /\ trace[t].api = "accept" /\ trace[t].web = "none"
       /\ reqs[tasks[t].proxy] = 1 /\ VerdictOf(t) = "true"
  /\ \E t \in TaskIds :
       /\ ProbeDone(t) /\ trace[t].api = "reject" /\ trace[t].web = "accept"
       /\ reqs[tasks[t].proxy] = 2 /\ VerdictOf(t) = "true"

(* ------------------------------- C19 ----------------------------------- *)
\* the task's two checks are over
BothDone(t) ==
  /\ tstate[t] \in {"settled", "finished"}
  /\ ~Unprobed(t)
  /\ trace[t].gpt # Pending /\ trace[t].gemini # Pending

\* no other task of the batch writes under this task's key
SoleTask(t) == \A u \in TaskIds \ {t} : tasks[u].cacheKey # tasks[t].cacheKey

\* a check that ended in a transport failure, or whose response had no status
NoSignal(o) == o # Pending /\ o.status = 0

Classified(script) == trace # << >> /\ trace[1].script = script
\* the body is a well-formed Anthropic error object
WellFormed(res) == res # HttpThrow /\ looksLikeAnthropicError(tryParseJson(res.body))
\* status 401 with a well-formed error object of type authentication_error
AuthError401(res) ==
  /\ WellFormed(res)
  /\ res.status = 401
  /\ tryParseJson(res.body).etype = "authentication_error"

StatusIs(n) == trace[1].res # HttpThrow /\ trace[1].res.status = n

\* C22 as stated: a 429 (and, for the Anthropic API, a 529) is never
\* accepted by the API classifier.
C22_Original ==
  /\ Classified("claude") => ((StatusIs(429) \/ StatusIs(529)) => ~trace[1].api)
  /\ Classified("gpt") => (StatusIs(429) => ~trace[1].api)

\* C22: with allow_429 off (the default) the API classifiers of claude.js and
\* gpt.js reject every 429 response, for every body and in strict and
\* permissive mode alike, and with allow_529 off the Anthropic classifier
\* rejects every 529; with the option on, the response is accepted exactly
\* when its body is a well-formed error object (claude.js) or parses as JSON
\* (gpt.js), again in both modes.
C22_Overloaded ==
  /\ Classified("claude") =>
       LET o == trace[1].opts
           res == trace[1].res
       IN /\ StatusIs(429) => (trace[1].api <=> (o.allow429 /\ WellFormed(res)))
          /\ StatusIs(529) => (trace[1].api <=> (o.allow529 /\ WellFormed(res)))
  /\ Classified("gpt") =>
       LET o == trace[1].opts
           res == trace[1].res
       IN StatusIs(429) => (trace[1].api <=> (o.allow429 /\ looksLikeJson(res.body)))

\* C22 witness: permissive mode, allow_429 and allow_529 off, a 429 with a
\* well-formed error body was rejected by the Anthropic classifier.
C22_Witness ==
  /\ Classified("claude")
  /\ ~trace[1].opts.strict /\ ~trace[1].opts.allow429 /\ ~trace[1].opts.allow529
  /\ StatusIs(429) /\ WellFormed(trace[1].res)
  /\ ~trace[1].api

(* ------------------------------- C23 ----------------------------------- *)
\* C23 as stated: a response whose body holds a region-block marker is
\* rejected by the API and by the Web classifier, in strict and in permissive
\* mode (claude.js: checkAnthropicAPI, checkClaudeWeb; gemini.js:
\* checkGeminiWeb and the checkGPT of v13).
C23_Original ==
  (Classified("claude") \/ Classified("gemini")) =>
     ((trace[1].res # HttpThrow /\ trace[1].res.body.marker) =>
        (~trace[1].api /\ ~trace[1].web))

(* ------------------------------- C24 ----------------------------------- *)
\* the fields of an object the fingerprint is meant to depend on
NonVolatile(o) == { e \in Range(o) : ~IsVolatileKey(e.k) }

SameFields(n1, n2) == Range(n1) = Range(n2)

\* C25 as stated: two proxies holding the same field/value pairs in different
\* insertion orders have the same fingerprint, in claude.js (sorted entries)
\* as in gemini.js v9 and sub-store.js (entries as inserted).
C25_Original ==
  Classified("fingerprint") =>
     (SameFields(trace[1].n1, trace[1].n2) =>
        /\ trace[1].fp1 = trace[1].fp2
        /\ trace[1].v9a = trace[1].v9b)

(* ------------------------------- C26 ----------------------------------- *)
\* qs holds the nodes of ps in some order, labels aside
Reordered(ps, qs) ==
  /\ Len(ps) = Len(qs)
  /\ \E f \in [1..Len(ps) -> 1..Len(ps)] :
       /\ \A i, j \in 1..Len(ps) : f[i] = f[j] => i = j
       /\ \A i \in 1..Len(ps) : qs[i].server = ps[f[i]].server

\* C26: a proxies list and any permutation of it have the same batch key,
\* and so have two lists that differ in the labels of their nodes only.
C26_Permutation ==
  Classified("batchKey") =>
     (Reordered(trace[1].ps, trace[1].qs) => trace[1].k1 = trace[1].k2)

\* C26 witness: three nodes with three servers were keyed next to the same
\* nodes in another order, and the keys are equal.
C26_Witness ==
  /\ Classified("batchKey")
  /\ Len(trace[1].ps) = 3
  /\ trace[1].ps[1].server = "s1" /\ trace[1].ps[2].server = "s2"
  /\ trace[1].ps[3].server = "a2"
  /\ trace[1].qs = <<trace[1].ps[3], trace[1].ps[1], trace[1].ps[2]>>
  /\ trace[1].k1 = trace[1].k2

(* ------------------------------- C27 ----------------------------------- *)
\* C27 as stated: a list with a node more, a node less or a node with another
\* server has another batch key.
C27_Original ==
  Classified("batchKey") =>
     (~Reordered(trace[1].ps, trace[1].qs) => trace[1].k1 # trace[1].k2)

\* the list with the server cp renamed a2: the fingerprints of the two
\* servers bring the hash to the same value (0x7597a6cf from the seed)
Collapsed(ps) ==
  [i \in 1..Len(ps) |-> IF ps[i].server = "cp" THEN [ps[i] EXCEPT !.server = "a2"] ELSE ps[i]]

\* C27: adding a node, removing a node or changing the server of a node
\* changes the string that is hashed, and the batch key changes with it
\* unless the two strings collide under the 32-bit hash: among the modelled
\* lists the key stays only when the lists differ by exchanging the servers
\* a2 and cp, and it does stay for their one-node lists, which both hash to
\* 0x7597a6cf (h = ((h << 5) + h) xor code unit, mod 2^32, seed 5381).
C27_KeyChange ==
  Classified("batchKey") =>
     LET ps == trace[1].ps
         qs == trace[1].qs
     IN /\ ~Reordered(ps, qs) =>
             (trace[1].k1 = trace[1].k2 => Reordered(Collapsed(ps), Collapsed(qs)))
        /\ (Len(ps) = 1 /\ ps[1].server \in {"a2", "cp"}) =>
             trace[1].k1 = <<"claude_check_batch_v2", <<30103, 42703>>>>

\* C27 witness: a one-node list was keyed next to the list with a second
\* node added, and the keys differ.
C27_Witness ==
  /\ Classified("batchKey")
  /\ Len(trace[1].ps) = 1 /\ Len(trace[1].qs) = 2
  /\ trace[1].qs[1] = trace[1].ps[1]
  /\ trace[1].qs[2].server # trace[1].ps[1].server
  /\ trace[1].k1 # trace[1].k2

(* ------------------------------- C28 ----------------------------------- *)
\* a request of the probe of node i was answered with an accept
ProbeAccepted(i) ==
  \E t \in TaskIds :
    tasks[t].proxy = i /\ (trace[t].api = "accept" \/ trace[t].web = "accept")
\* the read loop met the deny pattern on node i (line 105)
DenyHit(i) == ~LockPath /\ ~cfg.force /\ Denied(i)
\* the nodes for which P holds, in input order
InOrder(P(_)) == SelectSeq([i \in 1..Len(proxies) |-> i], P)
AcceptAsStated(i) == ReadOk(i) \/ ProbeAccepted(i)
AcceptVerdict(i) == ~DenyHit(i) /\ (ReadOk(i) \/ ProbeAccepted(i))

\* C28 as stated: the operator returns, in input order, exactly the nodes
\* whose record read in this invocation had ok=true or whose probe in this
\* invocation returned accept.
C28_Original ==
  pc = "returned" => result = InOrder(AcceptAsStated)

\* C28: the operator returns, in input order, exactly the nodes that the deny
\* pattern did not exclude in the read loop and whose record read in this
\* invocation had ok=true or whose probe in this invocation returned accept.
\* A node excluded by name is absent even when the record read for it had
\* ok=true; so is every node rejected, given up, skipped or not reached.
C28_Returned ==
  pc = "returned" => result = InOrder(AcceptVerdict)

\* C28 witness: of two nodes, the first is returned on the record read for
\* it, the second was probed, rejected and is absent.
C28_Witness ==
  /\ pc = "returned"
  /\ Len(proxies) = 2
  /\ ReadOk(1) /\ ~HasTask(1)
  /\ HasTask(2) /\ reqs[2] > 0 /\ ~ProbeAccepted(2)
  /\ result = <<1>>

(* ------------------------------- C29 ----------------------------------- *)
\* C29 as stated: however often the label is applied to an accepted node, the
\* name is the one a single application gives, in claude.js (addPrefix), in
\* gemini.js v13 (applyPrefix) and in part_006 (the rename inside check).
C29_Original ==
  (trace # << >> /\ trace[1].script \in LabelScripts /\ trace[1].applied >= 1) =>
     proxies[1].name = trace[1].once

(* ------------------------------- C30 ----------------------------------- *)
\* C30: in an invocation with the cache disabled the cache is left as it is
\* from the first step to the return (no set), nothing is read from it (the
\* read loop sees no record and the batch meta is the default one), the
\* cache-only path is not taken, force is off, no node is given up, and the
\* nodes that become probe tasks are exactly those the deny pattern does not
\* exclude.
C30_CacheDisabled ==
  /\ [][(pc' # "idle" /\ ~cfg'.useCache) => cache' = cache]_vars
  /\ [](  (pc # "idle" /\ ~cfg.useCache) =>
            /\ ~cfg.force
            /\ batchMeta = MetaRec(0, FALSE)
            /\ \A i \in ProxyIds :
                 /\ readLog[i].rec = NoRec
                 /\ readLog[i].branch \in {"denied", "task"}
                 /\ HasTask(i) <=> ~Denied(i)
                 /\ Denied(i) => proxies[i].isOk = "false")

\* C30 witness: the cache holds a locked meta record for the batch and a
\* failed record at the retry cap for a node, the invocation has the cache
\* disabled, and the node was probed all the same.
C30_Witness ==
  /\ pc = "returned"
  /\ ~cfg.useCache
  /\ cfg.maxRuns > 0 /\ cfg.maxTries > 0
  /\ cacheGet(cache, batchKey) # NoRec
  /\ cacheGet(cache, batchKey).locked
  /\ \E t \in TaskIds :
       LET stored == cacheGet(cache, tasks[t].cacheKey) IN
       /\ stored # NoRec
       /\ ~stored.ok /\ stored.tries >= cfg.maxTries
       /\ reqs[tasks[t].proxy] > 0

(* ------------------------------- C31 ----------------------------------- *)
\* C31 as stated: with cache.get or cache.set free to throw, the invocation
\* still completes (the operator's promise is not rejected) and every node
\* whose probe returned accept is in the returned list.
C31_Original ==
  /\ pc # "rejected"
  /\ pc = "returned" => \A i \in ProxyIds : ProbeAccepted(i) => Returned(i)

(* ------------------------------- C32 ----------------------------------- *)
\* C32: with force set and the cache enabled the operator does not take the
\* cache-only path, whatever the stored Batch Meta Record, and every node
\* whose record is not ok=true has a probe task, whatever its tries.
C32_ForceIgnoresMarkers ==
  (pc # "idle" /\ cfg.force /\ cfg.useCache /\ Len(proxies) > 0) =>
    /\ ~LockPath
    /\ \A i \in ProxyIds :
         (~ReadOk(i) /\ triesOf(ReadRec(i)) >= cfg.maxTries) =>
           (readLog[i].branch = "task" /\ HasTask(i))

\* C32 witness: a forced invocation over a batch whose stored record is
\* locked holds a task for a node whose record is ok=false at the cap.
C32_Witness ==
  /\ pc = "call"
  /\ cfg.force /\ cfg.useCache
  /\ cfg.maxRuns > 0 /\ cfg.maxTries > 0
  /\ StoredMeta.locked = TRUE /\ StoredMeta.runs >= cfg.maxRuns
  /\ \E i \in ProxyIds :
       /\ ReadRec(i) # NoRec /\ ReadRec(i).ok = FALSE
       /\ ReadRec(i).tries >= cfg.maxTries
       /\ HasTask(i)

(* ------------------------------- C33 ----------------------------------- *)
\* the Decision Record of the node the two invocations share
RaceRec == cacheGet(cache, RaceKey)
GiveUpMarker(rec) == rec # NoRec /\ rec.ok = FALSE /\ rec.tries >= cfg.maxTries
SomeProbeAccepted == \E k \in 1..Len(tlog) : tlog[k].ok

\* C33 as stated: with two invocations interleaving on the cache, a record
\* with ok=true is never replaced by a record with ok=false, and once a
\* probe of the node has accepted, the node's record is never a give-up
\* marker (ok=false, tries >= maxTries) when the invocations are over.
C33_Original ==
  /\ [][ (RaceRec # NoRec /\ RaceRec.ok = TRUE) => RaceRec'.ok = TRUE ]_vars
  /\ [](( AllIdle /\ SomeProbeAccepted) => ~GiveUpMarker(RaceRec))

(* ------------------------------- C34 ----------------------------------- *)
\* C34 as stated: in an invocation without force, a node whose label matches
\* the deny pattern sends no request and is not in the returned list,
\* whether or not the batch is locked and whatever record the cache holds.
C34_Original ==
  (pc # "idle" /\ ~cfg.force) =>
    \A i \in ProxyIds :
      Denied(i) => (reqs[i] = 0 /\ proxies[i].isOk # "true" /\ ~Returned(i))

(* ------------------------------- C35 ----------------------------------- *)
\* the probe of task t failed in this invocation
ProbeFailed(t) == trace[t] = "reject"
SuccessKey(i) == getSuccessCacheKey(proxies[i])
\* the step is the entry of an invocation of the variant
SuccessEntry == pc = "idle" /\ pc' # "idle"
TaskOfNext(i) == \E t \in 1..Len(tasks') : tasks'[t].proxy = i

PastAwait == pc \in {"resolved", "returned"}
\* the step leaves every Decision Record and every request count as it was
NoProbeEffect ==
  /\ \A k \in (DOMAIN cache') \ {batchKey} : k \in DOMAIN cache /\ cache'[k] = cache[k]
  /\ \A i \in DOMAIN reqs' : i \in DOMAIN reqs /\ reqs'[i] = reqs[i]

\* C36: when executeAsyncTasks has resolved no started task is unfinished,
\* so from the batch update to the return and after it no Decision Record
\* is written and no request is sent; and the per-node reads of an unlocked
\* round are over before the first probe: at the call of executeAsyncTasks
\* no request has been sent, and the records read do not change until the
\* return.
C36_ReturnAfterTasks ==
  /\ [](PastAwait =>
          (running = 0 /\ \A t \in TaskIds : tstate[t] \in {"queued", "finished"}))
  /\ [][ PastAwait => NoProbeEffect ]_vars
  /\ [](pc = "call" =>
          ((\A i \in ProxyIds : reqs[i] = 0) /\ (\A t \in TaskIds : tstate[t] = "queued")))
  /\ [][ (pc \in {"call", "sched", "resolved"}) => (readLog' = readLog) ]_vars

\* C36 witness: the operator has returned after two probes that both sent
\* requests, with the Batch Meta Record written.
C36_Witness ==
  /\ pc = "returned"
  /\ Len(tasks) >= 2
  /\ \A t \in TaskIds : tstate[t] = "finished" /\ reqs[tasks[t].proxy] > 0
  /\ batchKey \in DOMAIN cache

(* ------------------------------- C37 ----------------------------------- *)
\* the decision keys the cache holds a record for
DecisionKeys == { k \in DOMAIN cache : k[1] = "claude_check_standalone_v4" }

\* C37: from an empty cache, with force off, no deny pattern and the same
\* maxTries = N > 0 on every invocation, every stored Decision Record has
\* 1 <= tries <= N.
C37_TriesRange ==
  (audit.on /\ audit.maxTries > 0) =>
    \A k \in DecisionKeys : 1 <= cache[k].tries /\ cache[k].tries <= audit.maxTries

\* C37 witness: maxTries = 2; a node whose record is ok=false with tries = 2
\* was given up on in a later invocation, its record left as it was.
C37_Witness ==
  /\ audit.on /\ audit.maxTries = 2
  /\ pc = "returned"
  /\ \E i \in ProxyIds :
       /\ readLog[i].branch = "giveup"
       /\ ReadRec(i).tries = 2
       /\ cacheGet(cache, getProxyCacheKey(proxies[i])) = ReadRec(i)

(* ------------------------------- C38 ----------------------------------- *)
\* C38: from an empty cache, with the same maxRuns = M > 0 on every
\* invocation, every stored Batch Meta Record has 1 <= runs <= M and
\* locked = (runs >= M), and the runs stored for a batch key never decrease.
C38_RunsRange ==
  /\ [](audit.on =>
          \A bk \in MetaKeys :
            /\ 1 <= cache[bk].runs /\ cache[bk].runs <= audit.maxRuns
            /\ cache[bk].locked = (cache[bk].runs >= audit.maxRuns))
  /\ [][ \A bk \in MetaKeys :
           bk \in DOMAIN cache' /\ cache'[bk].runs >= cache[bk].runs ]_vars

\* C38 witness: maxRuns = 2; a forced invocation has probed a batch whose
\* record is {runs: 2, locked: true} and returns with the record unchanged.
C38_Witness ==
  /\ audit.on /\ audit.maxRuns = 2
  /\ pc = "returned"
  /\ cfg.force
  /\ attemptedCount > 0
  /\ cacheGet(cache, batchKey) = MetaRec(2, TRUE)

(* ------------------------------- C39 ----------------------------------- *)
\* C39 as stated: over sequential invocations without force, a Decision
\* Record with ok=true is never replaced by one with ok=false: once the
\* record of a fingerprint is ok=true it is ok=true in every later state of
\* the cache.
C39_Original ==
  [][ \A k \in DecisionKeys :
        cache[k].ok = TRUE => (k \in DOMAIN cache' /\ cache'[k].ok = TRUE) ]_vars

(* ------------------------------- C40 ----------------------------------- *)
\* executeAsyncTasks was called with a limit of 0 or below and has returned
\* its promise unresolved
Stalled == cfg.concurrency <= 0 /\ pc = "sched"

\* C40: with a concurrency limit K <= 0, a non-empty task list and the
\* deadline not passed at the call, executeAsyncTasks returns its promise
\* unresolved with no task started, and the promise is never resolved, the
\* deadline passing or not.
C40_NeverResolves ==
  /\ [][ (pc = "call" /\ cfg.concurrency <= 0 /\ ~deadlinePassed /\ tasks # << >>)
           => pc' \in {"call", "sched"} ]_vars
  /\ [](Stalled =>
          /\ tasks # << >>
          /\ running = 0 /\ index = 0
          /\ \A t \in TaskIds : tstate[t] = "queued"
          /\ \A i \in ProxyIds : reqs[i] = 0)
  /\ [][ Stalled => (pc' = "sched") ]_vars

\* C40 witness: the limit is 0, the deadline has passed, and the operator
\* is still waiting for executeAsyncTasks with its tasks not started.
C40_Witness ==
  /\ Stalled
  /\ deadlinePassed
  /\ Len(tasks) >= 2
  /\ \A t \in TaskIds : tstate[t] = "queued"

====
